---- MODULE Spec2Model ----
(***************************************************************************)
(* Authentication core of leagueLogik: credential check with account       *)
(* lockout (app/utils/auth.py, app/models/user.py), JWT issue / verify      *)
(* (app/utils/auth.py), the auth endpoints (app/api/v1/auth.py) and the     *)
(* per-request dependencies (app/api/dependencies.py).                      *)
(*                                                                         *)
(* Time is counted in ticks, TicksPerSecond ticks to the second, so that    *)
(* datetime arithmetic (sub-second) and the whole-second "exp" claim of a   *)
(* JWT are both representable.                                             *)
(***************************************************************************)
EXTENDS Integers, FiniteSets, Sequences, TLC

\* ---------------------------------------------------------------- bounds
TicksPerSecond == 2
MaxAdvance == 2
MaxFailed == 6
MaxTokens == 4
NSessions == 2
MaxRequired == 2
MaxSalt == 2
MaxCore == 3

\* ------------------------------------------------------ program constants
LOCK_THRESHOLD == 5
LOCK_MINUTES == 15
access_token_expire_minutes == 30
REFRESH_DAYS == 7
MIN_LENGTH == 8
MAX_LENGTH == 100

Minutes(m) == m * 60 * TicksPerSecond
Days(d) == d * 24 * 60 * 60 * TicksPerSecond

\* Optional[datetime] / Optional[timedelta]: None
None == -1
\* "no row" result of Query.first(), and the None return of authenticate_user
NoUser == 0

Emails == {"a@x", "b@x", "c@x"}
Passwords == {"Right1!A", "Wrong1!A"}

\* users    : the users table, member_id -> row
\* now      : the wall clock (datetime.now(timezone.utc)), in ticks
\* tokens   : every token the server has issued so far
\* advances : how often the clock has been advanced
\* last     : the most recent call, its arguments and its outcome
\* run      : the current run of consecutive wrong-password logins for the
\*            email of one active user that began with failed_login_attempts
\*            = 0, followed up to LOCK_THRESHOLD calls (n = 0: none)
\* sessions : the database sessions of concurrently running authenticate_user
\*            calls, each between its query and its commit
VARIABLES users, now, tokens, advances, last, run, sessions

vars == <<users, now, tokens, advances, last, run, sessions>>

\* ------------------------------------------------------------ PasswordHasher
\* bcrypt reads at most 72 bytes of a password
BCRYPT_MAX_BYTES == 72

\* The 72-character password "A1!aaa...a"
Long72 == [i \in 1 .. BCRYPT_MAX_BYTES |->
              IF i = 1 THEN "A" ELSE IF i = 2 THEN "1" ELSE IF i = 3 THEN "!" ELSE "a"]

\* Passwords longer than what bcrypt reads: Long72 followed by Y, by Z
LongPasswords == {"A1!a*69", "A1!a*69Y", "A1!a*69Z"}

\* Every password of the model as the sequence of its characters
PasswordChars ==
    ("Right1!A" :> <<"R", "i", "g", "h", "t", "1", "!", "A">>)
    @@ ("Wrong1!A" :> <<"W", "r", "o", "n", "g", "1", "!", "A">>)
    @@ ("Valid1!A" :> <<"V", "a", "l", "i", "d", "1", "!", "A">>)
    @@ ("A1!a*69" :> Long72)
    @@ ("A1!a*69Y" :> Long72 \o <<"Y">>)
    @@ ("A1!a*69Z" :> Long72 \o <<"Z">>)

\* bcrypt digests the first 72 bytes of the password and ignores the rest:
\* the password whose characters are those bytes
BcryptSecret ==
    [password \in DOMAIN PasswordChars |->
        LET c == PasswordChars[password]
            n == IF Len(c) < BCRYPT_MAX_BYTES THEN Len(c) ELSE BCRYPT_MAX_BYTES
        IN  CHOOSE q \in DOMAIN PasswordChars : PasswordChars[q] = SubSeq(c, 1, n)]

\* Mutant: every call uses the same salt
get_password_hash_fixed_salt(password, salt) ==
    [plain |-> BcryptSecret[password], salt |-> 0]

\* pwd_context.hash: plain is the part of the password that went into the
\* digest, salt the salt it was computed under
get_password_hash(password, salt) ==
    [plain |-> BcryptSecret[password], salt |-> salt]

\* pwd_context.verify: recompute under the salt stored in the hash
verify_password(plain_password, hashed_password) ==
    get_password_hash(plain_password, hashed_password.salt) = hashed_password

\* ---------------------------------------------------------------- User model
is_active(user) == user.member_status = "active"

\* Mutant: the expiry instant itself still counts as locked
is_locked_inclusive(user, clock) ==
    IF user.locked_until = None
    THEN FALSE
    ELSE clock <= user.locked_until

\* Mutant: a lock that is set is never compared with the clock
is_locked_forever(user, clock) ==
    user.locked_until # None

is_locked(user, clock) ==
    IF user.locked_until = None
    THEN FALSE
    ELSE clock < user.locked_until

\* Mutant: the counter is reset, the lock stays
reset_failed_attempts_counter_only(user) ==
    [user EXCEPT !.failed_login_attempts = 0]

reset_failed_attempts(user) ==
    [user EXCEPT !.failed_login_attempts = 0, !.locked_until = None]

\* Mutant: the counter starts over when the lock is set
increment_failed_attempts_restart(user, clock) ==
    LET n == user.failed_login_attempts + 1
    IN  IF n >= LOCK_THRESHOLD
        THEN [user EXCEPT !.failed_login_attempts = 0,
                          !.locked_until = clock + Minutes(LOCK_MINUTES)]
        ELSE [user EXCEPT !.failed_login_attempts = n]

\* Mutant: the threshold compared with > (locks on the 6th failure)
increment_failed_attempts_late(user, clock) ==
    LET n == user.failed_login_attempts + 1
    IN  IF n > LOCK_THRESHOLD
        THEN [user EXCEPT !.failed_login_attempts = n,
                          !.locked_until = clock + Minutes(LOCK_MINUTES)]
        ELSE [user EXCEPT !.failed_login_attempts = n]

\* Mutant: a lock that is already set is not armed again
increment_failed_attempts_keep_lock(user, clock) ==
    LET n == user.failed_login_attempts + 1
    IN  IF n >= LOCK_THRESHOLD /\ user.locked_until = None
        THEN [user EXCEPT !.failed_login_attempts = n,
                          !.locked_until = clock + Minutes(LOCK_MINUTES)]
        ELSE [user EXCEPT !.failed_login_attempts = n]

\* Mutant: the lock is armed by the failure that reaches the threshold only
increment_failed_attempts_exact(user, clock) ==
    LET n == user.failed_login_attempts + 1
    IN  IF n = LOCK_THRESHOLD
        THEN [user EXCEPT !.failed_login_attempts = n,
                          !.locked_until = clock + Minutes(LOCK_MINUTES)]
        ELSE [user EXCEPT !.failed_login_attempts = n]

increment_failed_attempts(user, clock) ==
    LET n == user.failed_login_attempts + 1
    IN  IF n >= LOCK_THRESHOLD
        THEN [user EXCEPT !.failed_login_attempts = n,
                          !.locked_until = clock + Minutes(LOCK_MINUTES)]
        ELSE [user EXCEPT !.failed_login_attempts = n]

\* db.query(User).filter(User.email == email).first(); email is a unique column
query_by_email(db, email) ==
    IF \E id \in DOMAIN db : db[id].email = email
    THEN CHOOSE id \in DOMAIN db : db[id].email = email
    ELSE NoUser

\* ------------------------------------------------------------- authenticate
\* Mutant: the member_status check left out
authenticate_user_any_status(db, email, password, clock) ==
    LET id == query_by_email(db, email)
    IN  IF id = NoUser
        THEN [db |-> db, user |-> NoUser, branch |-> "not_found"]
        ELSE IF is_locked(db[id], clock)
        THEN [db |-> db, user |-> NoUser, branch |-> "locked"]
        ELSE IF ~verify_password(password, db[id].password_hash)
        THEN [db |-> [db EXCEPT ![id] = increment_failed_attempts(db[id], clock)],
              user |-> NoUser, branch |-> "bad_password"]
        ELSE [db |-> [db EXCEPT ![id] = reset_failed_attempts(db[id])],
              user |-> id, branch |-> "ok"]

\* Mutant: the member_status check made before the lock check
authenticate_user_status_first(db, email, password, clock) ==
    LET id == query_by_email(db, email)
    IN  IF id = NoUser
        THEN [db |-> db, user |-> NoUser, branch |-> "not_found"]
        ELSE IF ~is_active(db[id])
        THEN [db |-> db, user |-> NoUser, branch |-> "inactive"]
        ELSE IF is_locked(db[id], clock)
        THEN [db |-> db, user |-> NoUser, branch |-> "locked"]
        ELSE IF ~verify_password(password, db[id].password_hash)
        THEN [db |-> [db EXCEPT ![id] = increment_failed_attempts(db[id], clock)],
              user |-> NoUser, branch |-> "bad_password"]
        ELSE [db |-> [db EXCEPT ![id] = reset_failed_attempts(db[id])],
              user |-> id, branch |-> "ok"]

\* Mutant: a wrong password is counted against every user
authenticate_user_counts_all(db, email, password, clock) ==
    LET id == query_by_email(db, email)
    IN  IF id = NoUser
        THEN [db |-> db, user |-> NoUser, branch |-> "not_found"]
        ELSE IF is_locked(db[id], clock)
        THEN [db |-> db, user |-> NoUser, branch |-> "locked"]
        ELSE IF ~is_active(db[id])
        THEN [db |-> db, user |-> NoUser, branch |-> "inactive"]
        ELSE IF ~verify_password(password, db[id].password_hash)
        THEN [db |-> [i \in DOMAIN db |-> increment_failed_attempts(db[i], clock)],
              user |-> NoUser, branch |-> "bad_password"]
        ELSE [db |-> [db EXCEPT ![id] = reset_failed_attempts(db[id])],
              user |-> id, branch |-> "ok"]

\* Mutant: the lock check does not look at the clock
authenticate_user_lock_never_expires(db, email, password, clock) ==
    LET id == query_by_email(db, email)
    IN  IF id = NoUser
        THEN [db |-> db, user |-> NoUser, branch |-> "not_found"]
        ELSE IF db[id].locked_until # None
        THEN [db |-> db, user |-> NoUser, branch |-> "locked"]
        ELSE IF ~is_active(db[id])
        THEN [db |-> db, user |-> NoUser, branch |-> "inactive"]
        ELSE IF ~verify_password(password, db[id].password_hash)
        THEN [db |-> [db EXCEPT ![id] = increment_failed_attempts(db[id], clock)],
              user |-> NoUser, branch |-> "bad_password"]
        ELSE [db |-> [db EXCEPT ![id] = reset_failed_attempts(db[id])],
              user |-> id, branch |-> "ok"]

\* Mutant: a wrong password is counted while the account is locked
authenticate_user_counts_locked(db, email, password, clock) ==
    LET id == query_by_email(db, email)
    IN  IF id = NoUser
        THEN [db |-> db, user |-> NoUser, branch |-> "not_found"]
        ELSE IF ~is_active(db[id])
        THEN [db |-> db, user |-> NoUser, branch |-> "inactive"]
        ELSE IF ~verify_password(password, db[id].password_hash)
        THEN [db |-> [db EXCEPT ![id] = increment_failed_attempts(db[id], clock)],
              user |-> NoUser, branch |-> "bad_password"]
        ELSE IF is_locked(db[id], clock)
        THEN [db |-> db, user |-> NoUser, branch |-> "locked"]
        ELSE [db |-> [db EXCEPT ![id] = reset_failed_attempts(db[id])],
              user |-> id, branch |-> "ok"]

\* Returns the session's view after commit (db), the returned user (NoUser for
\* None) and the return statement taken (branch).
authenticate_user(db, email, password, clock) ==
    LET id == query_by_email(db, email)
    IN  IF id = NoUser
        THEN [db |-> db, user |-> NoUser, branch |-> "not_found"]
        ELSE IF is_locked(db[id], clock)
        THEN [db |-> db, user |-> NoUser, branch |-> "locked"]
        ELSE IF ~is_active(db[id])
        THEN [db |-> db, user |-> NoUser, branch |-> "inactive"]
        ELSE IF ~verify_password(password, db[id].password_hash)
        THEN [db |-> [db EXCEPT ![id] = increment_failed_attempts(db[id], clock)],
              user |-> NoUser, branch |-> "bad_password"]
        ELSE [db |-> [db EXCEPT ![id] = reset_failed_attempts(db[id])],
              user |-> id, branch |-> "ok"]

\* ------------------------------------------------------------- TokenService
secret_key == "secret_key"

\* timegm(dt.utctimetuple()): a datetime as a JWT NumericDate, whole seconds
timegm(clock) == clock \div TicksPerSecond

\* jose.jwt.encode: datetime-valued "exp" becomes a NumericDate; then sign
jwt_encode(claims, key) ==
    [kind |-> "jwt", claims |-> [claims EXCEPT !.exp = timegm(@)], key |-> key]

\* Mutant: the second in which a token expires no longer counts as valid
jwt_decode_exclusive(token, key, clock) ==
    IF token.kind # "jwt"
    THEN [ok |-> FALSE, error |-> "JWTError"]
    ELSE IF token.key # key
    THEN [ok |-> FALSE, error |-> "JWTError"]
    ELSE IF "exp" \in DOMAIN token.claims /\ token.claims.exp <= timegm(clock)
    THEN [ok |-> FALSE, error |-> "ExpiredSignatureError"]
    ELSE [ok |-> TRUE, payload |-> token.claims]

\* jose.jwt.decode: structure, signature, then exp against the current second
jwt_decode(token, key, clock) ==
    IF token.kind # "jwt"
    THEN [ok |-> FALSE, error |-> "JWTError"]
    ELSE IF token.key # key
    THEN [ok |-> FALSE, error |-> "JWTError"]
    ELSE IF "exp" \in DOMAIN token.claims /\ token.claims.exp < timegm(clock)
    THEN [ok |-> FALSE, error |-> "ExpiredSignatureError"]
    ELSE [ok |-> TRUE, payload |-> token.claims]

\* the exception classes caught by "except JWTError"
JWTErrorClasses == {"JWTError", "ExpiredSignatureError", "JWTClaimsError"}

\* expires_delta = None stands for the argument left out
create_access_token(data, expires_delta, clock) ==
    LET expire == IF expires_delta # None /\ expires_delta # 0
                  THEN clock + expires_delta
                  ELSE clock + Minutes(access_token_expire_minutes)
    IN  jwt_encode([exp |-> expire] @@ data, secret_key)

create_refresh_token(data, clock) ==
    LET expire == clock + Days(REFRESH_DAYS)
    IN  jwt_encode([exp |-> expire, type |-> "refresh"] @@ data, secret_key)

\* Mutant: only the expiry error is caught
verify_token_expiry_only(token, clock) ==
    LET r == jwt_decode(token, secret_key, clock)
    IN  IF r.ok
        THEN [outcome |-> "payload", payload |-> r.payload]
        ELSE IF r.error = "ExpiredSignatureError"
        THEN [outcome |-> "None"]
        ELSE [outcome |-> "raise", error |-> r.error]

\* outcome "payload": the decoded claims; "None": the None return;
\* "raise": an exception leaves the function
verify_token(token, clock) ==
    LET r == jwt_decode(token, secret_key, clock)
    IN  IF r.ok
        THEN [outcome |-> "payload", payload |-> r.payload]
        ELSE IF r.error \in JWTErrorClasses
        THEN [outcome |-> "None"]
        ELSE [outcome |-> "raise", error |-> r.error]

get_user_from_token(db, token, clock) ==
    LET v == verify_token(token, clock)
    IN  IF v.outcome # "payload"
        THEN NoUser
        ELSE IF "sub" \notin DOMAIN v.payload
        THEN NoUser
        ELSE query_by_email(db, v.payload.sub)

\* ------------------------------------------------------------- dependencies
\* Mutant: the is_active check left out
get_current_user_any_status(db, token, clock) ==
    LET user == get_user_from_token(db, token, clock)
    IN  IF user = NoUser
        THEN [status |-> 401, detail |-> "Could not validate credentials", user |-> NoUser]
        ELSE [status |-> 200, detail |-> "", user |-> user]

get_current_user(db, token, clock) ==
    LET user == get_user_from_token(db, token, clock)
    IN  IF user = NoUser
        THEN [status |-> 401, detail |-> "Could not validate credentials", user |-> NoUser]
        ELSE IF ~is_active(db[user])
        THEN [status |-> 401, detail |-> "Inactive user", user |-> NoUser]
        ELSE [status |-> 200, detail |-> "", user |-> user]

\* credentials = None: the call without bearer credentials
NoCredentials == [kind |-> "none"]

\* Mutant: the is_active check left out
get_optional_user_any_status(db, credentials, clock) ==
    IF credentials = NoCredentials
    THEN [status |-> 200, detail |-> "", user |-> NoUser]
    ELSE [status |-> 200, detail |-> "",
          user |-> get_user_from_token(db, credentials, clock)]

\* get_optional_user: it has no raise statement, every path returns (status
\* 200: the request goes on), with the user or with None (NoUser)
get_optional_user(db, credentials, clock) ==
    IF credentials = NoCredentials
    THEN [status |-> 200, detail |-> "", user |-> NoUser]
    ELSE LET user == get_user_from_token(db, credentials, clock)
         IN  IF user # NoUser /\ is_active(db[user])
             THEN [status |-> 200, detail |-> "", user |-> user]
             ELSE [status |-> 200, detail |-> "", user |-> NoUser]

\* ------------------------------------------------------------ RoleResolver
\* class AdminRole(str, enum.Enum): the members, named by their values
AdminRole == {"admin", "treasurer", "course_coordinator", "tournament_coordinator"}

\* Mutant: admin does not inherit the other roles
get_user_roles_flat(user) ==
    IF user.admin_roles = "None"
    THEN {}
    ELSE {user.admin_roles}

\* user.admin_roles is None for a regular member ("None" in the table)
get_user_roles(user) ==
    IF user.admin_roles = "None"
    THEN {}
    ELSE IF user.admin_roles = "admin"
    THEN AdminRole
    ELSE {user.admin_roles}

\* -------------------------------------------------------------- AccessGuard
\* A str as the sequence of its characters
Chars ==
    [admin |-> <<"a", "d", "m", "i", "n">>,
     treasurer |-> <<"t", "r", "e", "a", "s", "u", "r", "e", "r">>,
     course_coordinator |->
        <<"c", "o", "u", "r", "s", "e", "_",
          "c", "o", "o", "r", "d", "i", "n", "a", "t", "o", "r">>,
     tournament_coordinator |->
        <<"t", "o", "u", "r", "n", "a", "m", "e", "n", "t", "_",
          "c", "o", "o", "r", "d", "i", "n", "a", "t", "o", "r">>]

ascii_lowercase ==
    <<"a", "b", "c", "d", "e", "f", "g", "h", "i", "j", "k", "l", "m",
      "n", "o", "p", "q", "r", "s", "t", "u", "v", "w", "x", "y", "z">>

ascii_uppercase ==
    <<"A", "B", "C", "D", "E", "F", "G", "H", "I", "J", "K", "L", "M",
      "N", "O", "P", "Q", "R", "S", "T", "U", "V", "W", "X", "Y", "Z">>

isalpha(c) ==
    \E i \in 1 .. 26 : c = ascii_lowercase[i] \/ c = ascii_uppercase[i]

upper(c) ==
    IF \E i \in 1 .. 26 : c = ascii_lowercase[i]
    THEN ascii_uppercase[CHOOSE i \in 1 .. 26 : c = ascii_lowercase[i]]
    ELSE c

lower(c) ==
    IF \E i \in 1 .. 26 : c = ascii_uppercase[i]
    THEN ascii_lowercase[CHOOSE i \in 1 .. 26 : c = ascii_uppercase[i]]
    ELSE c

\* str.replace(old, new) for single characters
replace(s, old, new) ==
    [i \in 1 .. Len(s) |-> IF s[i] = old THEN new ELSE s[i]]

\* Mutant: str.capitalize(), only the first character is upper-cased
capitalize(s) ==
    [i \in 1 .. Len(s) |-> IF i = 1 THEN upper(s[i]) ELSE lower(s[i])]

\* str.title(): a letter that follows no letter is upper-cased, every other
\* letter lower-cased
title(s) ==
    [i \in 1 .. Len(s) |->
        IF i = 1 \/ ~isalpha(s[i - 1]) THEN upper(s[i]) ELSE lower(s[i])]

\* role.value.replace('_', ' ').title(), for each member of AdminRole
RoleNames == [role \in AdminRole |-> title(replace(Chars[role], "_", " "))]

role_name(role) == RoleNames[role]

\* ', '.join(role_names)
RECURSIVE join(_)
join(role_names) ==
    IF Len(role_names) = 0
    THEN <<>>
    ELSE IF Len(role_names) = 1
    THEN role_names[1]
    ELSE role_names[1] \o <<",", " ">> \o join(Tail(role_names))

\* Mutant: with no role required, the intersection is tested all the same
require_roles_nonempty(required_roles, db, current_user) ==
    LET user_roles == get_user_roles(db[current_user])
    IN  IF user_roles \cap {required_roles[i] : i \in DOMAIN required_roles} = {}
        THEN [status |-> 403,
              detail |-> <<"Access denied. This endpoint requires one of the following roles: ">>
                         \o join([i \in DOMAIN required_roles |->
                                     role_name(required_roles[i])])
                         \o <<".">>,
              user |-> NoUser]
        ELSE [status |-> 200, detail |-> <<>>, user |-> current_user]

\* require_roles(*required_roles)(current_user): required_roles is a tuple,
\* current_user the member_id of the caller that get_current_user resolved.
\* detail is the f-string as the sequence of its literal parts and of the
\* characters of the role names.
require_roles(required_roles, db, current_user) ==
    IF Len(required_roles) = 0
    THEN [status |-> 200, detail |-> <<>>, user |-> current_user]
    ELSE LET user_roles == get_user_roles(db[current_user])
         IN  IF user_roles \cap {required_roles[i] : i \in DOMAIN required_roles} = {}
             THEN [status |-> 403,
                   detail |->
                      IF Len(required_roles) = 1
                      THEN <<"Access denied. This endpoint requires ">>
                           \o role_name(required_roles[1])
                           \o <<" role.">>
                      ELSE <<"Access denied. This endpoint requires one of the following roles: ">>
                           \o join([i \in DOMAIN required_roles |->
                                       role_name(required_roles[i])])
                           \o <<".">>,
                   user |-> NoUser]
             ELSE [status |-> 200, detail |-> <<>>, user |-> current_user]

\* The members of the AdminRole enum in the order of their definition, as
\* "*AdminRole" unpacks them
AdminRoleMembers ==
    <<"admin", "treasurer", "course_coordinator", "tournament_coordinator">>

\* Mutant: the treasurer passes as administrator
require_admin_or_treasurer(db, current_user) ==
    require_roles(<<"treasurer", "admin">>, db, current_user)

\* require_admin()(current_user)
require_admin(db, current_user) ==
    require_roles(<<"admin">>, db, current_user)

\* require_financial_access()(current_user)
require_financial_access(db, current_user) ==
    require_roles(<<"treasurer", "admin">>, db, current_user)

\* require_any_admin()(current_user)
require_any_admin(db, current_user) ==
    require_roles(AdminRoleMembers, db, current_user)

\* Mutant: only the admin role opens other members' data
require_member_self_or_admin_admin_only(member_id, db, current_user) ==
    IF current_user = member_id
    THEN [status |-> 200, detail |-> <<>>, user |-> current_user]
    ELSE IF "admin" \in get_user_roles(db[current_user])
    THEN [status |-> 200, detail |-> <<>>, user |-> current_user]
    ELSE [status |-> 403,
          detail |-> <<"Access denied. You can only access your own data unless you have administrative privileges.">>,
          user |-> NoUser]

\* require_member_self_or_admin(member_id)(current_user)
require_member_self_or_admin(member_id, db, current_user) ==
    IF current_user = member_id
    THEN [status |-> 200, detail |-> <<>>, user |-> current_user]
    ELSE IF get_user_roles(db[current_user]) # {}
    THEN [status |-> 200, detail |-> <<>>, user |-> current_user]
    ELSE [status |-> 403,
          detail |-> <<"Access denied. You can only access your own data unless you have administrative privileges.">>,
          user |-> NoUser]

\* ---------------------------------------------------- PasswordChangeRequest
\* A str is the sequence of its characters.
\* re.search(r"[...]", v): some character of v is in the class
search(class, v) == \E i \in 1 .. Len(v) : v[i] \in class

\* [A-Z], [a-z], \d and [!@#$%^&*(),.?\":{}|<>]
upper_class == {ascii_uppercase[i] : i \in 1 .. 26}

lower_class == {ascii_lowercase[i] : i \in 1 .. 26}

digit_class == {"0", "1", "2", "3", "4", "5", "6", "7", "8", "9"}

special_class ==
    {"!", "@", "#", "$", "%", "^", "&", "*", "(", ")", ",", ".", "?", "\"",
     ":", "{", "}", "|", "<", ">"}

\* Field(..., min_length=8, max_length=100)
new_password_field(v) ==
    IF Len(v) < MIN_LENGTH
    THEN [ok |-> FALSE, error |-> "ensure this value has at least 8 characters"]
    ELSE IF Len(v) > MAX_LENGTH
    THEN [ok |-> FALSE, error |-> "ensure this value has at most 100 characters"]
    ELSE [ok |-> TRUE, error |-> ""]

\* Mutant: the lower length limit compared with <=
validate_password_strength_over_8(v) ==
    IF Len(v) <= MIN_LENGTH
    THEN [ok |-> FALSE, error |-> "Password must be at least 8 characters long"]
    ELSE IF Len(v) > MAX_LENGTH
    THEN [ok |-> FALSE, error |-> "Password must not exceed 100 characters"]
    ELSE IF ~search(upper_class, v)
    THEN [ok |-> FALSE, error |-> "Password must contain at least one uppercase letter"]
    ELSE IF ~search(lower_class, v)
    THEN [ok |-> FALSE, error |-> "Password must contain at least one lowercase letter"]
    ELSE IF ~search(digit_class, v)
    THEN [ok |-> FALSE, error |-> "Password must contain at least one digit"]
    ELSE IF ~search(special_class, v)
    THEN [ok |-> FALSE, error |-> "Password must contain at least one special character"]
    ELSE [ok |-> TRUE, error |-> ""]

\* @validator("new_password"): the first rule that fails raises ValueError
validate_password_strength(v) ==
    IF Len(v) < MIN_LENGTH
    THEN [ok |-> FALSE, error |-> "Password must be at least 8 characters long"]
    ELSE IF Len(v) > MAX_LENGTH
    THEN [ok |-> FALSE, error |-> "Password must not exceed 100 characters"]
    ELSE IF ~search(upper_class, v)
    THEN [ok |-> FALSE, error |-> "Password must contain at least one uppercase letter"]
    ELSE IF ~search(lower_class, v)
    THEN [ok |-> FALSE, error |-> "Password must contain at least one lowercase letter"]
    ELSE IF ~search(digit_class, v)
    THEN [ok |-> FALSE, error |-> "Password must contain at least one digit"]
    ELSE IF ~search(special_class, v)
    THEN [ok |-> FALSE, error |-> "Password must contain at least one special character"]
    ELSE [ok |-> TRUE, error |-> ""]

\* @validator("confirm_password"): values holds the fields validated so far
passwords_match(v, values) ==
    IF "new_password" \in DOMAIN values /\ v # values.new_password
    THEN [ok |-> FALSE, error |-> "Passwords do not match"]
    ELSE [ok |-> TRUE, error |-> ""]

\* PasswordChangeRequest(new_password=..., confirm_password=...): the fields
\* are validated in the order of their declaration, a field that failed is
\* left out of values, and the request is accepted when no field failed
PasswordChangeRequest(new_password, confirm_password) ==
    LET f == new_password_field(new_password)
        s == IF f.ok THEN validate_password_strength(new_password) ELSE f
        values == IF s.ok THEN [new_password |-> new_password] ELSE <<>>
        m == passwords_match(confirm_password, values)
    IN  [ok |-> s.ok /\ m.ok,
         errors |-> (IF s.ok THEN {} ELSE {s.error})
                    \cup (IF m.ok THEN {} ELSE {m.error})]

\* ------------------------------------------------------------------ endpoints
\* Mutant: a locked account is reported as such
login_reveals_lock(db, email, password, clock) ==
    LET a == authenticate_user(db, email, password, clock)
    IN  IF a.user = NoUser
        THEN [db |-> a.db, status |-> IF a.branch = "locked" THEN 423 ELSE 401,
              detail |-> IF a.branch = "locked"
                         THEN "Account locked"
                         ELSE "Incorrect email or password",
              branch |-> a.branch, user |-> NoUser, issued |-> {},
              expires_in |-> None]
        ELSE LET token_data == [sub |-> a.db[a.user].email, user_id |-> a.user]
             IN  [db |-> a.db, status |-> 200, detail |-> "",
                  branch |-> a.branch, user |-> a.user,
                  issued |-> {create_access_token(token_data, None, clock),
                              create_refresh_token(token_data, clock)},
                  expires_in |-> access_token_expire_minutes * 60]

\* Mutant: no refresh token in the response
login_access_only(db, email, password, clock) ==
    LET a == authenticate_user(db, email, password, clock)
    IN  IF a.user = NoUser
        THEN [db |-> a.db, status |-> 401, detail |-> "Incorrect email or password",
              branch |-> a.branch, user |-> NoUser, issued |-> {},
              expires_in |-> None]
        ELSE LET token_data == [sub |-> a.db[a.user].email, user_id |-> a.user]
             IN  [db |-> a.db, status |-> 200, detail |-> "",
                  branch |-> a.branch, user |-> a.user,
                  issued |-> {create_access_token(token_data, None, clock)},
                  expires_in |-> access_token_expire_minutes * 60]

\* POST /auth/login; expires_in is the field of the Token response (None when
\* the request ends in an HTTPException)
login(db, email, password, clock) ==
    LET a == authenticate_user(db, email, password, clock)
    IN  IF a.user = NoUser
        THEN [db |-> a.db, status |-> 401, detail |-> "Incorrect email or password",
              branch |-> a.branch, user |-> NoUser, issued |-> {},
              expires_in |-> None]
        ELSE LET token_data == [sub |-> a.db[a.user].email, user_id |-> a.user]
             IN  [db |-> a.db, status |-> 200, detail |-> "",
                  branch |-> a.branch, user |-> a.user,
                  issued |-> {create_access_token(token_data, None, clock),
                              create_refresh_token(token_data, clock)},
                  expires_in |-> access_token_expire_minutes * 60]

\* Mutant: the type discriminator is not checked
refresh_token_any_type(db, token, clock) ==
    LET v == verify_token(token, clock)
    IN  IF v.outcome # "payload"
        THEN [status |-> 401, detail |-> "Invalid refresh token", issued |-> {}]
        ELSE IF ~("sub" \in DOMAIN v.payload /\ v.payload.sub # "")
        THEN [status |-> 401, detail |-> "Invalid token payload", issued |-> {}]
        ELSE LET user == query_by_email(db, v.payload.sub)
             IN  IF user = NoUser \/ ~is_active(db[user])
                 THEN [status |-> 401, detail |-> "User not found or inactive",
                       issued |-> {}]
                 ELSE LET new_token_data == [sub |-> db[user].email, user_id |-> user]
                      IN  [status |-> 200, detail |-> "",
                           issued |-> {create_access_token(new_token_data, None, clock),
                                       create_refresh_token(new_token_data, clock)}]

\* Mutant: a locked account cannot refresh
refresh_token_checks_lock(db, token, clock) ==
    LET v == verify_token(token, clock)
    IN  IF v.outcome # "payload"
        THEN [status |-> 401, detail |-> "Invalid refresh token", issued |-> {}]
        ELSE IF ~("type" \in DOMAIN v.payload /\ v.payload.type = "refresh")
        THEN [status |-> 401, detail |-> "Invalid token type", issued |-> {}]
        ELSE IF ~("sub" \in DOMAIN v.payload /\ v.payload.sub # "")
        THEN [status |-> 401, detail |-> "Invalid token payload", issued |-> {}]
        ELSE LET user == query_by_email(db, v.payload.sub)
             IN  IF user = NoUser \/ ~is_active(db[user]) \/ is_locked(db[user], clock)
                 THEN [status |-> 401, detail |-> "User not found or inactive",
                       issued |-> {}]
                 ELSE LET new_token_data == [sub |-> db[user].email, user_id |-> user]
                      IN  [status |-> 200, detail |-> "",
                           issued |-> {create_access_token(new_token_data, None, clock),
                                       create_refresh_token(new_token_data, clock)}]

\* POST /auth/refresh
refresh_token(db, token, clock) ==
    LET v == verify_token(token, clock)
    IN  IF v.outcome # "payload"
        THEN [status |-> 401, detail |-> "Invalid refresh token", issued |-> {}]
        ELSE IF ~("type" \in DOMAIN v.payload /\ v.payload.type = "refresh")
        THEN [status |-> 401, detail |-> "Invalid token type", issued |-> {}]
        ELSE IF ~("sub" \in DOMAIN v.payload /\ v.payload.sub # "")
        THEN [status |-> 401, detail |-> "Invalid token payload", issued |-> {}]
        ELSE LET user == query_by_email(db, v.payload.sub)
             IN  IF user = NoUser \/ ~is_active(db[user])
                 THEN [status |-> 401, detail |-> "User not found or inactive",
                       issued |-> {}]
                 ELSE LET new_token_data == [sub |-> db[user].email, user_id |-> user]
                      IN  [status |-> 200, detail |-> "",
                           issued |-> {create_access_token(new_token_data, None, clock),
                                       create_refresh_token(new_token_data, clock)}]

\* POST /auth/logout: Depends(get_current_user), then a message
logout(db, token, clock) ==
    LET g == get_current_user(db, token, clock)
    IN  IF g.status # 200
        THEN [db |-> db, status |-> g.status, detail |-> g.detail, user |-> NoUser]
        ELSE [db |-> db, status |-> 200, detail |-> "", user |-> g.user]

\* Mutant: the current password is not verified
change_password_unverified(db, token, current_password, new_password, clock, salt) ==
    LET g == get_current_user(db, token, clock)
    IN  IF g.status # 200
        THEN [db |-> db, status |-> g.status, detail |-> g.detail, user |-> NoUser]
        ELSE [db |-> [db EXCEPT ![g.user].password_hash =
                                    get_password_hash(new_password, salt)],
              status |-> 200, detail |-> "", user |-> g.user]

\* Mutant: a change of password clears the lockout state
change_password_clears_lock(db, token, current_password, new_password, clock, salt) ==
    LET g == get_current_user(db, token, clock)
    IN  IF g.status # 200
        THEN [db |-> db, status |-> g.status, detail |-> g.detail, user |-> NoUser]
        ELSE IF ~verify_password(current_password, db[g.user].password_hash)
        THEN [db |-> db, status |-> 400, detail |-> "Current password is incorrect",
              user |-> g.user]
        ELSE [db |-> [db EXCEPT ![g.user] =
                         [reset_failed_attempts(@) EXCEPT !.password_hash =
                             get_password_hash(new_password, salt)]],
              status |-> 200, detail |-> "", user |-> g.user]

\* POST /auth/change-password: Depends(get_current_user), the current password
\* verified, the hash of the new password stored (salt: the salt bcrypt draws)
change_password(db, token, current_password, new_password, clock, salt) ==
    LET g == get_current_user(db, token, clock)
    IN  IF g.status # 200
        THEN [db |-> db, status |-> g.status, detail |-> g.detail, user |-> NoUser]
        ELSE IF ~verify_password(current_password, db[g.user].password_hash)
        THEN [db |-> db, status |-> 400, detail |-> "Current password is incorrect",
              user |-> g.user]
        ELSE [db |-> [db EXCEPT ![g.user].password_hash =
                                    get_password_hash(new_password, salt)],
              status |-> 200, detail |-> "", user |-> g.user]

\* ---------------------------------------------------------------------- state
\* A bearer string that is no JWT at all
Garbage == [kind |-> "garbage"]

\* What a client can present: a token this server issued, the same claims
\* signed with another key, or a malformed string
Presentable ==
    tokens \cup {[t EXCEPT !.key = "other_key"] : t \in tokens} \cup {Garbage}

\* Clock advances explored: one tick, and one tick short of each lifetime
Steps ==
    {1, Minutes(LOCK_MINUTES) - 1, Minutes(access_token_expire_minutes) - 1,
     Days(REFRESH_DAYS) - 1}

NewUser(email, password, status, role) ==
    [email |-> email,
     password_hash |-> get_password_hash(password, 0),
     member_status |-> status,
     admin_roles |-> role,
     failed_login_attempts |-> 0,
     locked_until |-> None]

Sessions == 1 .. NSessions

NoRun == [email |-> "", n |-> 0]

\* The run of wrong-password logins after a login for email with password
NextRun(email, password) ==
    LET id == query_by_email(users, email)
    IN  IF id = NoUser
        THEN NoRun
        ELSE IF ~is_active(users[id])
                \/ verify_password(password, users[id].password_hash)
        THEN NoRun
        ELSE IF run.n > 0 /\ run.email = email
        THEN IF run.n < LOCK_THRESHOLD
             THEN [email |-> email, n |-> run.n + 1]
             ELSE NoRun
        ELSE IF users[id].failed_login_attempts = 0
        THEN [email |-> email, n |-> 1]
        ELSE NoRun

Init ==
    /\ users = (1 :> NewUser("a@x", "Right1!A", "active", "admin"))
               @@ (2 :> NewUser("b@x", "Right1!A", "inactive", "None"))
    /\ now = 0
    /\ tokens = {}
    /\ advances = 0
    /\ last = [op |-> "init"]
    /\ run = NoRun
    /\ sessions = [s \in Sessions |-> [pc |-> "idle"]]

Login(email, password) ==
    LET r == login(users, email, password, now)
    IN  /\ \A id \in DOMAIN r.db : r.db[id].failed_login_attempts <= MaxFailed
        /\ Cardinality(tokens \cup r.issued) <= MaxTokens
        /\ users' = r.db
        /\ tokens' = tokens \cup r.issued
        /\ last' = [op |-> "login", email |-> email, password |-> password,
                    at |-> now, pre |-> users, status |-> r.status,
                    detail |-> r.detail, branch |-> r.branch, user |-> r.user,
                    issued |-> r.issued, run |-> run,
                    expires_in |-> r.expires_in]
        /\ run' = NextRun(email, password)
        /\ UNCHANGED <<now, advances, sessions>>

RefreshToken(token) ==
    LET r == refresh_token(users, token, now)
    IN  /\ Cardinality(tokens \cup r.issued) <= MaxTokens
        /\ tokens' = tokens \cup r.issued
        /\ last' = [op |-> "refresh", token |-> token, at |-> now, pre |-> users,
                    status |-> r.status, detail |-> r.detail, issued |-> r.issued]
        /\ UNCHANGED <<users, now, advances, run, sessions>>

\* GET /auth/me, standing for every endpoint behind Depends(get_current_user)
GetCurrentUser(token) ==
    LET r == get_current_user(users, token, now)
    IN  /\ last' = [op |-> "get_current_user", token |-> token, at |-> now,
                    pre |-> users, status |-> r.status, detail |-> r.detail,
                    user |-> r.user]
        /\ UNCHANGED <<users, now, tokens, advances, run, sessions>>

\* An endpoint behind Depends(get_optional_user)
GetOptionalUser(credentials) ==
    LET r == get_optional_user(users, credentials, now)
    IN  /\ last' = [op |-> "get_optional_user", token |-> credentials,
                    at |-> now, pre |-> users, status |-> r.status,
                    detail |-> r.detail, user |-> r.user]
        /\ UNCHANGED <<users, now, tokens, advances, run, sessions>>

VerifyToken(token) ==
    /\ last' = [op |-> "verify_token", token |-> token, at |-> now,
                result |-> verify_token(token, now)]
    /\ UNCHANGED <<users, now, tokens, advances, run, sessions>>

Advance(d) ==
    /\ advances < MaxAdvance
    /\ now' = now + d
    /\ advances' = advances + 1
    /\ last' = [op |-> "advance", at |-> now', pre |-> users]
    /\ UNCHANGED <<users, tokens, run, sessions>>

Next ==
    \/ \E email \in Emails, password \in Passwords : Login(email, password)
    \/ \E token \in Presentable : RefreshToken(token)
    \/ \E token \in Presentable : GetCurrentUser(token)
    \/ \E token \in Presentable : VerifyToken(token)
    \/ \E d \in Steps : Advance(d)

Spec == Init /\ [][Next]_vars

\* ------------------------------------------- concurrent authenticate_user calls
\* Session.commit(): the flush writes the attributes the call changed on the
\* loaded object (UPDATE users SET <changed columns> WHERE member_id = ...)
commit(current, loaded, changed) ==
    [current EXCEPT
        !.failed_login_attempts =
            IF changed.failed_login_attempts # loaded.failed_login_attempts
            THEN changed.failed_login_attempts ELSE @,
        !.locked_until =
            IF changed.locked_until # loaded.locked_until
            THEN changed.locked_until ELSE @]

\* authenticate_user up to its db.commit(): the query and the checks, with
\* the counter update made on the session's own copy of the row
AuthQuery(s, email, password) ==
    LET a == authenticate_user(users, email, password, now)
        id == query_by_email(users, email)
    IN  /\ sessions[s].pc = "idle"
        /\ sessions' = [sessions EXCEPT ![s] =
              IF a.branch \in {"bad_password", "ok"}
              THEN [pc |-> "dirty", email |-> email, password |-> password,
                    id |-> id, loaded |-> users[id], changed |-> a.db[id],
                    user |-> a.user, branch |-> a.branch]
              ELSE [pc |-> "done", email |-> email, password |-> password,
                    user |-> a.user, branch |-> a.branch]]
        /\ UNCHANGED <<users, now, tokens, advances, last, run>>

\* db.commit() of authenticate_user, then its return
AuthCommit(s) ==
    /\ sessions[s].pc = "dirty"
    /\ users' = [users EXCEPT ![sessions[s].id] =
                    commit(@, sessions[s].loaded, sessions[s].changed)]
    /\ sessions' = [sessions EXCEPT ![s] =
                       [pc |-> "done", email |-> sessions[s].email,
                        password |-> sessions[s].password,
                        user |-> sessions[s].user, branch |-> sessions[s].branch]]
    /\ UNCHANGED <<now, tokens, advances, last, run>>

ClockAdvance(d) ==
    /\ advances < MaxAdvance
    /\ now' = now + d
    /\ advances' = advances + 1
    /\ UNCHANGED <<users, tokens, last, run, sessions>>

NextConc ==
    \/ \E s \in Sessions, email \in Emails, password \in Passwords :
          AuthQuery(s, email, password)
    \/ \E s \in Sessions : AuthCommit(s)
    \/ \E d \in Steps : ClockAdvance(d)

SpecConc == Init /\ [][NextConc]_vars

\* ------------------------------------------------ token issue / verify alone
TokenData == {[sub |-> e, user_id |-> i] : e \in {"a@x", "b@x"}, i \in {1, 2}}

\* expires_delta: left out, timedelta(0), half a second, one minute
Deltas == {None, 0, 1, Minutes(1)}

CreateAccessToken(data, expires_delta) ==
    /\ last' = [op |-> "create_access_token", data |-> data,
                expires_delta |-> expires_delta, at |-> now,
                token |-> create_access_token(data, expires_delta, now)]
    /\ UNCHANGED <<users, now, tokens, advances, run, sessions>>

CreateRefreshToken(data) ==
    /\ last' = [op |-> "create_refresh_token", data |-> data, at |-> now,
                token |-> create_refresh_token(data, now)]
    /\ UNCHANGED <<users, now, tokens, advances, run, sessions>>

\* verify_token on the token created last, at the current clock
VerifyIssued ==
    /\ last.op \in {"create_access_token", "create_refresh_token", "verify_issued"}
    /\ LET issue == IF last.op = "verify_issued" THEN last.issue ELSE last
       IN  last' = [op |-> "verify_issued", issue |-> issue, at |-> now,
                    result |-> verify_token(issue.token, now)]
    /\ UNCHANGED <<users, now, tokens, advances, run, sessions>>

NextTok ==
    \/ \E data \in TokenData, expires_delta \in Deltas :
          CreateAccessToken(data, expires_delta)
    \/ \E data \in TokenData : CreateRefreshToken(data)
    \/ VerifyIssued
    \/ \E d \in Steps : ClockAdvance(d)

SpecTok == Init /\ [][NextTok]_vars

\* ------------------------------------------------ edits of the users table
\* The users table is also written from outside the endpoints (no endpoint of
\* the application sets member_status or deletes a row): a membership is
\* deactivated, a row is deleted.
Deactivate(id) ==
    /\ id \in DOMAIN users
    /\ is_active(users[id])
    /\ users' = [users EXCEPT ![id].member_status = "inactive"]
    /\ last' = [op |-> "deactivate", id |-> id, at |-> now, pre |-> users]
    /\ run' = NoRun
    /\ UNCHANGED <<now, tokens, advances, sessions>>

DeleteUser(id) ==
    /\ id \in DOMAIN users
    /\ users' = [i \in DOMAIN users \ {id} |-> users[i]]
    /\ last' = [op |-> "delete_user", id |-> id, at |-> now, pre |-> users]
    /\ run' = NoRun
    /\ UNCHANGED <<now, tokens, advances, sessions>>

NextStore ==
    \/ \E email \in Emails, password \in Passwords : Login(email, password)
    \/ \E token \in Presentable : GetCurrentUser(token)
    \/ \E credentials \in Presentable \cup {NoCredentials} :
          GetOptionalUser(credentials)
    \/ \E id \in DOMAIN users : Deactivate(id)
    \/ \E id \in DOMAIN users : DeleteUser(id)
    \/ \E d \in Steps : Advance(d)

SpecStore == Init /\ [][NextStore]_vars

\* ------------------------------------------------ db.commit() that can fail
\* login when the UPDATE of db.commit() may fail (commit_ok = FALSE: the
\* database refuses the write). authenticate_user has no handler around
\* db.commit(): the exception leaves authenticate_user and login, the request
\* ends as 500 and get_db closes the session, which rolls the change back.
\* A commit with no changed attribute emits no UPDATE and cannot fail so.
login_commit(db, email, password, clock, commit_ok) ==
    LET a == authenticate_user(db, email, password, clock)
    IN  IF a.db # db /\ ~commit_ok
        THEN [db |-> db, status |-> 500, detail |-> "Internal Server Error",
              branch |-> a.branch, user |-> NoUser, issued |-> {},
              raised |-> TRUE]
        ELSE [raised |-> FALSE] @@ login(db, email, password, clock)

\* In this specification run counts the consecutive logins for one email whose
\* password was compared and found wrong while the counter stayed where it was.
LoginCommit(email, password, commit_ok) ==
    LET r == login_commit(users, email, password, now, commit_ok)
        guess == r.branch = "bad_password" /\ r.db = users
        n == IF run.email = email THEN run.n + 1 ELSE 1
    IN  /\ \A id \in DOMAIN r.db : r.db[id].failed_login_attempts <= MaxFailed
        /\ Cardinality(tokens \cup r.issued) <= MaxTokens
        /\ guess => n <= MaxFailed
        /\ users' = r.db
        /\ tokens' = tokens \cup r.issued
        /\ last' = [op |-> "login", email |-> email, password |-> password,
                    at |-> now, pre |-> users, status |-> r.status,
                    detail |-> r.detail, branch |-> r.branch, user |-> r.user,
                    issued |-> r.issued, run |-> run, commit_ok |-> commit_ok,
                    raised |-> r.raised]
        /\ run' = IF guess THEN [email |-> email, n |-> n] ELSE NoRun
        /\ UNCHANGED <<now, advances, sessions>>

NextPersist ==
    \/ \E email \in Emails, password \in Passwords, commit_ok \in BOOLEAN :
          LoginCommit(email, password, commit_ok)
    \/ \E d \in Steps : Advance(d)

SpecPersist == Init /\ [][NextPersist]_vars

\* ------------------------------------------------- role checks on a caller
\* The users table with every admin_roles value on its rows (both active)
InitAccess ==
    /\ \E r1 \in AdminRole \cup {"None"}, r2 \in AdminRole \cup {"None"} :
          users = (1 :> NewUser("a@x", "Right1!A", "active", r1))
                  @@ (2 :> NewUser("b@x", "Right1!A", "active", r2))
    /\ now = 0
    /\ tokens = {}
    /\ advances = 0
    /\ last = [op |-> "init"]
    /\ run = NoRun
    /\ sessions = [s \in Sessions |-> [pc |-> "idle"]]

\* The tuples that can be passed as *required_roles
RequiredRoles ==
    UNION {[1 .. n -> AdminRole] : n \in 0 .. MaxRequired}

\* member_id path parameters: the members, and an id that no row has
MemberIds == 1 .. 3

GetUserRoles(current_user) ==
    /\ last' = [op |-> "get_user_roles", id |-> current_user, pre |-> users,
                result |-> get_user_roles(users[current_user])]
    /\ UNCHANGED <<users, now, tokens, advances, run, sessions>>

RequireRoles(required_roles, current_user) ==
    LET r == require_roles(required_roles, users, current_user)
    IN  /\ last' = [op |-> "require_roles", required |-> required_roles,
                    id |-> current_user, pre |-> users, status |-> r.status,
                    detail |-> r.detail, user |-> r.user]
        /\ UNCHANGED <<users, now, tokens, advances, run, sessions>>

RequireMemberSelfOrAdmin(member_id, current_user) ==
    LET r == require_member_self_or_admin(member_id, users, current_user)
    IN  /\ last' = [op |-> "require_member_self_or_admin", member_id |-> member_id,
                    id |-> current_user, pre |-> users, status |-> r.status,
                    detail |-> r.detail, user |-> r.user]
        /\ UNCHANGED <<users, now, tokens, advances, run, sessions>>

RequireAdmin(current_user) ==
    LET r == require_admin(users, current_user)
    IN  /\ last' = [op |-> "require_admin", id |-> current_user, pre |-> users,
                    status |-> r.status, detail |-> r.detail, user |-> r.user]
        /\ UNCHANGED <<users, now, tokens, advances, run, sessions>>

RequireFinancialAccess(current_user) ==
    LET r == require_financial_access(users, current_user)
    IN  /\ last' = [op |-> "require_financial_access", id |-> current_user,
                    pre |-> users, status |-> r.status, detail |-> r.detail,
                    user |-> r.user]
        /\ UNCHANGED <<users, now, tokens, advances, run, sessions>>

RequireAnyAdmin(current_user) ==
    LET r == require_any_admin(users, current_user)
    IN  /\ last' = [op |-> "require_any_admin", id |-> current_user,
                    pre |-> users, status |-> r.status, detail |-> r.detail,
                    user |-> r.user]
        /\ UNCHANGED <<users, now, tokens, advances, run, sessions>>

NextAccess ==
    \/ \E id \in DOMAIN users : RequireAdmin(id)
    \/ \E id \in DOMAIN users : RequireFinancialAccess(id)
    \/ \E id \in DOMAIN users : RequireAnyAdmin(id)
    \/ \E id \in DOMAIN users : GetUserRoles(id)
    \/ \E required \in RequiredRoles, id \in DOMAIN users : RequireRoles(required, id)
    \/ \E member_id \in MemberIds, id \in DOMAIN users :
          RequireMemberSelfOrAdmin(member_id, id)

SpecAccess == InitAccess /\ [][NextAccess]_vars

\* ------------------------------------------- logout and change of password
\* A new_password that passes the validators of PasswordChangeRequest
NewPasswords == {"Valid1!A"}

\* The salt bcrypt draws for a new hash: one that no stored hash has
gensalt(db) ==
    1 + CHOOSE m \in {db[id].password_hash.salt : id \in DOMAIN db} :
           \A id \in DOMAIN db : db[id].password_hash.salt <= m

Logout(token) ==
    LET r == logout(users, token, now)
    IN  /\ users' = r.db
        /\ last' = [op |-> "logout", token |-> token, at |-> now, pre |-> users,
                    tokens |-> tokens, status |-> r.status, detail |-> r.detail,
                    user |-> r.user]
        /\ UNCHANGED <<now, tokens, advances, run, sessions>>

ChangePassword(token, current_password, new_password) ==
    LET r == change_password(users, token, current_password, new_password, now,
                             gensalt(users))
    IN  /\ \A id \in DOMAIN r.db : r.db[id].password_hash.salt <= MaxSalt
        /\ users' = r.db
        /\ last' = [op |-> "change_password", token |-> token,
                    current_password |-> current_password,
                    new_password |-> new_password, at |-> now, pre |-> users,
                    status |-> r.status, detail |-> r.detail, user |-> r.user]
        /\ run' = NoRun
        /\ UNCHANGED <<now, tokens, advances, sessions>>

\* Sessions are opened by logins that succeed (failing logins: Next)
NextSession ==
    \/ \E email \in Emails, password \in Passwords \cup NewPasswords :
          /\ login(users, email, password, now).status = 200
          /\ Login(email, password)
    \/ \E token \in Presentable : RefreshToken(token)
    \/ \E token \in Presentable : GetCurrentUser(token)
    \/ \E token \in Presentable : Logout(token)
    \/ \E token \in Presentable, current_password \in Passwords \cup NewPasswords,
          new_password \in NewPasswords :
          ChangePassword(token, current_password, new_password)
    \/ \E d \in Steps : Advance(d)

SpecSession == Init /\ [][NextSession]_vars

\* ------------------------------------------- validation of change-password
PolicyAlphabet == {"A", "a", "1", "!", "_"}

\* new_password inputs: a few characters, alone or padded with one
\* character to a length next to one of the two limits
PolicyLengths == {MIN_LENGTH - 1, MIN_LENGTH, MAX_LENGTH, MAX_LENGTH + 1}

PolicyPasswords ==
    LET cores == UNION {[1 .. n -> PolicyAlphabet] : n \in 0 .. MaxCore}
    IN  cores \cup
        {core \o [i \in 1 .. (len - Len(core)) |-> pad] :
            core \in cores, pad \in PolicyAlphabet, len \in PolicyLengths}

\* confirm_password inputs: new_password again, or another password
OtherPassword == <<"V", "a", "l", "i", "d", "1", "!", "A">>

InitPolicy ==
    /\ users = (1 :> NewUser("a@x", "Right1!A", "active", "admin"))
               @@ (2 :> NewUser("b@x", "Right1!A", "inactive", "None"))
    /\ now = 0
    /\ tokens = {}
    /\ advances = 0
    /\ \E new_password \in PolicyPasswords :
          \E confirm_password \in {new_password, OtherPassword} :
             last = [op |-> "request", new_password |-> new_password,
                     confirm_password |-> confirm_password]
    /\ run = NoRun
    /\ sessions = [s \in Sessions |-> [pc |-> "idle"]]

ValidateRequest ==
    /\ last.op = "request"
    /\ LET r == PasswordChangeRequest(last.new_password, last.confirm_password)
       IN  last' = [op |-> "validate", new_password |-> last.new_password,
                    confirm_password |-> last.confirm_password,
                    ok |-> r.ok, errors |-> r.errors]
    /\ UNCHANGED <<users, now, tokens, advances, run, sessions>>

NextPolicy == ValidateRequest

SpecPolicy == InitPolicy /\ [][NextPolicy]_vars

\* ------------------------------------------------- hash and verify alone
\* get_password_hash(password): the salt drawn is one no hash in the state
\* has; prev is the call before when that was a get_password_hash too
HashPassword(password) ==
    LET salt == IF last.op = "hash" THEN last.result.salt + 1 ELSE gensalt(users)
    IN  /\ salt <= MaxSalt
        /\ last' = [op |-> "hash", password |-> password,
                    result |-> get_password_hash(password, salt), pre |-> users,
                    prev |-> IF last.op = "hash"
                             THEN [op |-> "hash", password |-> last.password,
                                   result |-> last.result]
                             ELSE [op |-> last.op]]
        /\ UNCHANGED <<users, now, tokens, advances, run, sessions>>

\* verify_password(plain_password, hashed_password) on the hash just made
VerifyPassword(plain_password) ==
    /\ last.op = "hash"
    /\ last' = [op |-> "verify", password |-> plain_password,
                hashed |-> last.result, of |-> last.password,
                result |-> verify_password(plain_password, last.result),
                pre |-> users]
    /\ UNCHANGED <<users, now, tokens, advances, run, sessions>>

NextHash ==
    \/ \E password \in DOMAIN PasswordChars : HashPassword(password)
    \/ \E password \in DOMAIN PasswordChars : VerifyPassword(password)

SpecHash == Init /\ [][NextHash]_vars

\* ------------------------------------- logins around changes of password
\* Logins with any password, and change-password requests whose body passes
\* the validation of PasswordChangeRequest
NextPassword ==
    \/ \E email \in Emails, password \in DOMAIN PasswordChars :
          Login(email, password)
    \/ \E token \in tokens, current_password \in DOMAIN PasswordChars,
          new_password \in DOMAIN PasswordChars :
          /\ PasswordChangeRequest(PasswordChars[new_password],
                                   PasswordChars[new_password]).ok
          /\ ChangePassword(token, current_password, new_password)

SpecPassword == Init /\ [][NextPassword]_vars

\* ------------------------------------------------------------------ seeding
\* None of an Optional[str] argument, as admin_roles "None" above
NoStr == "None"

\* bool(value) of an Optional[str]
truthy(value) == value # NoStr /\ value # ""

\* The fields class Settings declares
SettingsFields ==
    {"database_url", "api_v1_str", "project_name", "secret_key", "algorithm",
     "access_token_expire_minutes", "debug", "environment", "allowed_origins"}

\* "value or settings.<name>": the value when it is truthy, else the
\* attribute of settings, which raises AttributeError when Settings has no
\* such field
or_settings(value, name) ==
    IF truthy(value)
    THEN [raised |-> "", value |-> value]
    ELSE IF name \in SettingsFields
    THEN [raised |-> "", value |-> name]
    ELSE [raised |-> "AttributeError", value |-> NoStr]

\* The four "x = x or settings.admin_x" lines: the first exception raised
admin_defaults(email, password, first_name, last_name) ==
    LET e == or_settings(email, "admin_email")
        p == or_settings(password, "admin_password")
        f == or_settings(first_name, "admin_first_name")
        l == or_settings(last_name, "admin_last_name")
    IN  [raised |-> IF e.raised # "" THEN e.raised
                    ELSE IF p.raised # "" THEN p.raised
                    ELSE IF f.raised # "" THEN f.raised
                    ELSE l.raised,
         email |-> e.value, password |-> p.value,
         first_name |-> f.value, last_name |-> l.value]

\* seeding.hash_password: pwd_context.hash of the seeding module
hash_password(password, salt) ==
    [plain |-> BcryptSecret[password], salt |-> salt]

\* seeding.verify_password: pwd_context.verify of the seeding module
seeding_verify_password(plain_password, hashed_password) ==
    hash_password(plain_password, hashed_password.salt) = hashed_password

\* get_admin_user: Query.first() of the rows with admin_roles = ADMIN, with no
\* ORDER BY: any of these rows, or NoUser when there is none
get_admin_user(db) ==
    IF \E id \in DOMAIN db : db[id].admin_roles = "admin"
    THEN {id \in DOMAIN db : db[id].admin_roles = "admin"}
    ELSE {NoUser}

\* The unique constraint on users.email, checked by the flush of db.commit()
email_unique(db) ==
    \A i, j \in DOMAIN db : db[i].email = db[j].email => i = j

\* The autoincrement primary key of a row added to the table
next_member_id(db) ==
    IF DOMAIN db = {} THEN 1
    ELSE (CHOOSE i \in DOMAIN db : \A j \in DOMAIN db : j <= i) + 1

\* Mutant: force creates a second administrator
create_admin_user_force_creates(db, existing_admin, email, password, first_name, last_name, force, salt, today) ==
    LET a == admin_defaults(email, password, first_name, last_name)
    IN  IF a.raised # ""
        THEN [db |-> db, raised |-> a.raised, user |-> NoUser]
        ELSE IF existing_admin # NoUser /\ ~force
        THEN [db |-> db, raised |-> "ValueError", user |-> NoUser]
        ELSE LET id == next_member_id(db)
                 added == db @@ (id :>
                     [email |-> a.email,
                      password_hash |-> hash_password(a.password, salt),
                      first_name |-> a.first_name,
                      last_name |-> a.last_name,
                      member_status |-> "active",
                      member_type |-> "full",
                      admin_roles |-> "admin",
                      signup_date |-> today,
                      failed_login_attempts |-> 0,
                      locked_until |-> None])
             IN  IF email_unique(added)
                 THEN [db |-> added, raised |-> "", user |-> id]
                 ELSE [db |-> db, raised |-> "IntegrityError", user |-> NoUser]

\* create_admin_user; existing_admin is the row get_admin_user(db) returned,
\* salt the salt bcrypt draws, today is date.today()
create_admin_user(db, existing_admin, email, password, first_name, last_name, force, salt, today) ==
    LET a == admin_defaults(email, password, first_name, last_name)
    IN  IF a.raised # ""
        THEN [db |-> db, raised |-> a.raised, user |-> NoUser]
        ELSE IF existing_admin # NoUser /\ ~force
        THEN [db |-> db, raised |-> "ValueError", user |-> NoUser]
        ELSE IF existing_admin # NoUser /\ force
        THEN LET updated == [db EXCEPT ![existing_admin] =
                     [@ EXCEPT !.email = a.email,
                               !.password_hash = hash_password(a.password, salt),
                               !.first_name = a.first_name,
                               !.last_name = a.last_name]]
             IN  IF email_unique(updated)
                 THEN [db |-> updated, raised |-> "", user |-> existing_admin]
                 ELSE [db |-> db, raised |-> "IntegrityError", user |-> NoUser]
        ELSE LET id == next_member_id(db)
                 added == db @@ (id :>
                     [email |-> a.email,
                      password_hash |-> hash_password(a.password, salt),
                      first_name |-> a.first_name,
                      last_name |-> a.last_name,
                      member_status |-> "active",
                      member_type |-> "full",
                      admin_roles |-> "admin",
                      signup_date |-> today,
                      failed_login_attempts |-> 0,
                      locked_until |-> None])
             IN  IF email_unique(added)
                 THEN [db |-> added, raised |-> "", user |-> id]
                 ELSE [db |-> db, raised |-> "IntegrityError", user |-> NoUser]

\* seed_admin_user: the defaults, the session, the dry run, create_admin_user;
\* "except Exception: raise" passes every exception on
seed_admin_user(db, existing_admin, email, password, first_name, last_name, force, dry_run, salt, today) ==
    LET a == admin_defaults(email, password, first_name, last_name)
    IN  IF a.raised # ""
        THEN [db |-> db, raised |-> a.raised, user |-> NoUser]
        ELSE IF dry_run
        THEN [db |-> db, raised |-> "", user |-> NoUser]
        ELSE create_admin_user(db, existing_admin, a.email, a.password,
                               a.first_name, a.last_name, force, salt, today)

\* A row of the users table with the columns the seeding writes
SeedUser(email, password, first_name, last_name, role) ==
    [email |-> email,
     password_hash |-> hash_password(password, 0),
     first_name |-> first_name,
     last_name |-> last_name,
     member_status |-> "active",
     member_type |-> "full",
     admin_roles |-> role,
     signup_date |-> 0,
     failed_login_attempts |-> 0,
     locked_until |-> None]

\* The tables the seeding starts from: empty, a member only, an
\* administrator only, an administrator and a member
SeedTables ==
    {<< >>,
     (1 :> SeedUser("b@x", "Right1!A", "Bea", "Member", "None")),
     (1 :> SeedUser("a@x", "Right1!A", "Admin", "One", "admin")),
     (1 :> SeedUser("a@x", "Right1!A", "Admin", "One", "admin"))
        @@ (2 :> SeedUser("b@x", "Right1!A", "Bea", "Member", "None"))}

SeedEmails == {"a@x", "b@x", "c@x", NoStr}
SeedPasswords == {"Valid1!A", "A1!a*69Y", NoStr}
SeedFirstNames == {"Admin", NoStr}
SeedLastNames == {"Two", NoStr}

\* The salt bcrypt draws for the hash of a seeding call
seed_salt(db) == IF DOMAIN db = {} THEN 1 ELSE gensalt(db)

InitSeed ==
    /\ users \in SeedTables
    /\ now = 0
    /\ tokens = {}
    /\ advances = 0
    /\ last = [op |-> "init"]
    /\ run = NoRun
    /\ sessions = [s \in Sessions |-> [pc |-> "idle"]]

CreateAdminUser(email, password, first_name, last_name, force) ==
    \E existing_admin \in get_admin_user(users) :
        LET r == create_admin_user(users, existing_admin, email, password,
                                   first_name, last_name, force,
                                   seed_salt(users), now)
        IN  /\ \A id \in DOMAIN r.db : r.db[id].password_hash.salt <= MaxSalt
            /\ users' = r.db
            /\ last' = [op |-> "create_admin_user", pre |-> users,
                        existing_admin |-> existing_admin, email |-> email,
                        password |-> password, first_name |-> first_name,
                        last_name |-> last_name, force |-> force,
                        raised |-> r.raised, user |-> r.user]
            /\ UNCHANGED <<now, tokens, advances, run, sessions>>

SeedAdminUser(email, password, first_name, last_name, force, dry_run) ==
    \E existing_admin \in get_admin_user(users) :
        LET r == seed_admin_user(users, existing_admin, email, password,
                                 first_name, last_name, force, dry_run,
                                 seed_salt(users), now)
        IN  /\ \A id \in DOMAIN r.db : r.db[id].password_hash.salt <= MaxSalt
            /\ users' = r.db
            /\ last' = [op |-> "seed_admin_user", pre |-> users,
                        existing_admin |-> existing_admin, email |-> email,
                        password |-> password, first_name |-> first_name,
                        last_name |-> last_name, force |-> force,
                        dry_run |-> dry_run,
                        raised |-> r.raised, user |-> r.user]
            /\ UNCHANGED <<now, tokens, advances, run, sessions>>

NextSeed ==
    \/ \E email \in SeedEmails, password \in SeedPasswords,
          first_name \in SeedFirstNames, last_name \in SeedLastNames,
          force \in BOOLEAN :
          CreateAdminUser(email, password, first_name, last_name, force)
    \/ \E email \in SeedEmails, password \in SeedPasswords,
          first_name \in SeedFirstNames, last_name \in SeedLastNames,
          force \in BOOLEAN, dry_run \in BOOLEAN :
          SeedAdminUser(email, password, first_name, last_name, force, dry_run)

SpecSeed == InitSeed /\ [][NextSeed]_vars

\* ------------------------------------------------ logins while time passes
\* The clock moves on by the length of a lock window; nothing else happens
Tick ==
    /\ advances < MaxAdvance
    /\ now' = now + Minutes(LOCK_MINUTES)
    /\ advances' = advances + 1
    /\ last' = [op |-> "tick", at |-> now', pre |-> users]
    /\ UNCHANGED <<users, tokens, run, sessions>>

\* Logins are followed as long as the clock has a step left to make
NextLive ==
    \/ \E email \in Emails, password \in Passwords :
          advances < MaxAdvance /\ Login(email, password)
    \/ Tick

\* Time passes whatever the callers do
SpecLive == Init /\ [][NextLive]_vars /\ WF_vars(Tick)

\* ------------------------------------------- every endpoint and dependency
\* Logins that fail and succeed, and between them the requests that carry a
\* token: refresh, the dependencies, logout, change-password
NextFrame ==
    \/ \E email \in Emails, password \in Passwords \cup NewPasswords :
          Login(email, password)
    \/ \E token \in Presentable : RefreshToken(token)
    \/ \E token \in Presentable : GetCurrentUser(token)
    \/ \E credentials \in Presentable \cup {NoCredentials} :
          GetOptionalUser(credentials)
    \/ \E required \in RequiredRoles, id \in DOMAIN users : RequireRoles(required, id)
    \/ \E member_id \in MemberIds, id \in DOMAIN users :
          RequireMemberSelfOrAdmin(member_id, id)
    \/ \E token \in Presentable : Logout(token)
    \/ \E token \in Presentable, current_password \in Passwords \cup NewPasswords,
          new_password \in NewPasswords :
          ChangePassword(token, current_password, new_password)

SpecFrame == Init /\ [][NextFrame]_vars

\* ------------------------------------------------- logins of two members
\* Two active users, each with a password of its own
InitTwo ==
    /\ users = (1 :> NewUser("a@x", "Right1!A", "active", "admin"))
               @@ (2 :> NewUser("b@x", "Wrong1!A", "active", "None"))
    /\ now = 0
    /\ tokens = {}
    /\ advances = 0
    /\ last = [op |-> "init"]
    /\ run = NoRun
    /\ sessions = [s \in Sessions |-> [pc |-> "idle"]]

NextTwo ==
    \E email \in Emails, password \in Passwords : Login(email, password)

SpecTwo == InitTwo /\ [][NextTwo]_vars

\* -------------------------------------- tokens while the seeding is re-run
\* Two administrators; logins that succeed, requests with their tokens, and
\* create_admin_user with force and all four arguments given
InitIdent ==
    /\ users = (1 :> SeedUser("a@x", "Right1!A", "Admin", "One", "admin"))
               @@ (2 :> SeedUser("b@x", "Right1!A", "Bea", "Admin", "admin"))
    /\ now = 0
    /\ tokens = {}
    /\ advances = 0
    /\ last = [op |-> "init"]
    /\ run = NoRun
    /\ sessions = [s \in Sessions |-> [pc |-> "idle"]]

NextIdent ==
    \/ \E email \in Emails, password \in Passwords \cup NewPasswords :
          /\ login(users, email, password, now).status = 200
          /\ Login(email, password)
    \/ \E token \in tokens : RefreshToken(token)
    \/ \E token \in tokens : GetCurrentUser(token)
    \/ \E token \in tokens, new_password \in NewPasswords :
          ChangePassword(token, "Right1!A", new_password)
    \/ \E email \in Emails :
          CreateAdminUser(email, "Valid1!A", "Admin", "Two", TRUE)

SpecIdent == InitIdent /\ [][NextIdent]_vars

\* ====================================================================== claims

\* C1: after exactly 5 consecutive wrong-password logins for an active user
\* that started from failed_login_attempts = 0 the account is locked, and a
\* 6th login with the correct password before locked_until is refused on the
\* lock check (no user returned, no token issued) and changes neither
\* failed_login_attempts nor locked_until.
C1_SixthAttemptLocked ==
    /\ \A id \in DOMAIN users :
          (run.n = 5 /\ run.email = users[id].email)
             => /\ users[id].failed_login_attempts = 5
                /\ users[id].locked_until # None
    /\ (last.op = "login" /\ last.run.n = 5 /\ last.run.email = last.email)
          => \A id \in DOMAIN last.pre :
                (/\ last.pre[id].email = last.email
                 /\ last.pre[id].password_hash.plain = last.password
                 /\ last.at < last.pre[id].locked_until)
                   => /\ last.user = NoUser
                      /\ last.branch = "locked"
                      /\ last.status = 401
                      /\ last.issued = {}
                      /\ users[id].failed_login_attempts
                            = last.pre[id].failed_login_attempts
                      /\ users[id].locked_until = last.pre[id].locked_until

C1_Witness ==
    /\ last.op = "login"
    /\ last.run.n = 5
    /\ last.run.email = last.email
    /\ \E id \in DOMAIN last.pre :
          /\ last.pre[id].email = last.email
          /\ last.pre[id].member_status = "active"
          /\ last.pre[id].password_hash.plain = last.password
          /\ last.at < last.pre[id].locked_until
          /\ users[id].failed_login_attempts = 5
    /\ last.user = NoUser

\* C2: a login returns the user if and only if a row with that email
\* exists, it is not locked at the time of the call, its status is active and
\* the password matches the stored hash; otherwise it returns no user (401,
\* no token).
C2_AuthenticateIff ==
    last.op = "login" =>
       /\ (last.user # NoUser) <=>
             \E id \in DOMAIN last.pre :
                /\ last.pre[id].email = last.email
                /\ ~(/\ last.pre[id].locked_until # None
                     /\ last.at < last.pre[id].locked_until)
                /\ last.pre[id].member_status = "active"
                /\ last.pre[id].password_hash.plain = last.password
       /\ last.user # NoUser => /\ last.user \in DOMAIN last.pre
                                /\ last.pre[last.user].email = last.email
                                /\ last.status = 200
       /\ last.user = NoUser => /\ last.status = 401
                                /\ last.issued = {}

C2_Witness ==
    /\ last.op = "login"
    /\ last.user # NoUser
    /\ last.pre[last.user].failed_login_attempts > 0
    /\ last.pre[last.user].locked_until = None

\* C4: a refresh token (type = refresh) presented as the bearer token to
\* get_current_user is rejected with "Invalid token type" and never resolves
\* to a user.
C4_RefreshTokenRejectedAsBearer ==
    (/\ last.op = "get_current_user"
     /\ last.token.kind = "jwt"
     /\ "type" \in DOMAIN last.token.claims
     /\ last.token.claims.type = "refresh")
       => /\ last.user = NoUser
          /\ last.status = 401
          /\ last.detail = "Invalid token type"

C7_VerifyTotal ==
    last.op = "verify_token" =>
       /\ last.result.outcome \in {"payload", "None"}
       /\ last.result.outcome = "payload" => last.result.payload = last.token.claims

C7_Witness ==
    /\ last.op = "verify_token"
    /\ last.token.kind = "jwt"
    /\ last.token.key # "secret_key"
    /\ last.token.claims.exp >= last.at \div TicksPerSecond
    /\ last.result.outcome = "None"

\* C8: failed_login_attempts never decreases and locked_until is never
\* cleared except by a successful login of that user, which sets
\* failed_login_attempts to 0 and locked_until to None.
C8_CounterMonotone ==
    [][\A id \in DOMAIN users :
          /\ id \in DOMAIN users'
          /\ (\/ users'[id].failed_login_attempts < users[id].failed_login_attempts
              \/ (users[id].locked_until # None /\ users'[id].locked_until = None))
                => (last'.op = "login" /\ last'.user = id)
          /\ (last' # last /\ last'.op = "login" /\ last'.user = id)
                => /\ users'[id].failed_login_attempts = 0
                   /\ users'[id].locked_until = None]_vars

C8_Witness ==
    /\ last.op = "login"
    /\ last.user # NoUser
    /\ last.pre[last.user].failed_login_attempts >= 5
    /\ last.pre[last.user].locked_until # None
    /\ users[last.user].failed_login_attempts = 0
    /\ users[last.user].locked_until = None

\* C9: once now >= locked_until, one login with the correct password for
\* that active user succeeds and leaves failed_login_attempts = 0 and
\* locked_until = None.
C9_UnlockAfterExpiry ==
    last.op = "login" =>
       \A id \in DOMAIN last.pre :
          (/\ last.pre[id].email = last.email
           /\ last.pre[id].locked_until # None
           /\ last.at >= last.pre[id].locked_until
           /\ last.pre[id].member_status = "active"
           /\ last.pre[id].password_hash.plain = last.password)
             => /\ last.user = id
                /\ users[id].failed_login_attempts = 0
                /\ users[id].locked_until = None

C9_Witness ==
    /\ last.op = "login"
    /\ \E id \in DOMAIN last.pre :
          /\ last.pre[id].email = last.email
          /\ last.pre[id].locked_until = last.at
          /\ last.pre[id].password_hash.plain = last.password
          /\ last.user = id

\* C10: is_locked is true if and only if locked_until is present and
\* now < locked_until; the login lock check follows it; and the clock
\* reaching locked_until changes no stored field (failed_login_attempts keeps
\* its value).
C10_IsLockedIff ==
    /\ \A id \in DOMAIN users :
          is_locked(users[id], now)
             <=> (users[id].locked_until # None /\ now < users[id].locked_until)
    /\ last.op = "login" =>
          \A id \in DOMAIN last.pre :
             last.pre[id].email = last.email =>
                ((last.branch = "locked")
                    <=> (/\ last.pre[id].locked_until # None
                         /\ last.at < last.pre[id].locked_until))
    /\ last.op = "advance" => users = last.pre

C10_Witness ==
    /\ last.op = "advance"
    /\ \E id \in DOMAIN users :
          /\ users[id].locked_until = now
          /\ users[id].failed_login_attempts >= 5
          /\ ~is_locked(users[id], now)

\* C3: N authenticate_user calls with a wrong password running concurrently
\* against one unlocked active user leave failed_login_attempts at the
\* initial value (0) plus N.
C3_ConcurrentFailuresCounted ==
    \A id \in DOMAIN users :
       (\A s \in Sessions :
           /\ sessions[s].pc = "done"
           /\ sessions[s].branch = "bad_password"
           /\ sessions[s].email = users[id].email)
          => users[id].failed_login_attempts = NSessions

\* C6: verify_token on a token from create_access_token(claims, ttl) issued
\* at t returns claims with the issued sub and user_id at every clock value
\* before t + ttl and None at every clock value after t + ttl; ttl defaults
\* to 30 minutes for access tokens and is 7 days for refresh tokens.
C6_VerifyUntilExpiry ==
    last.op = "verify_issued" =>
       LET issue == last.issue
           ttl == IF issue.op = "create_refresh_token"
                  THEN 7 * 24 * 60 * 60 * TicksPerSecond
                  ELSE IF issue.expires_delta = None
                  THEN 30 * 60 * TicksPerSecond
                  ELSE issue.expires_delta
       IN  /\ last.at < issue.at + ttl
              => /\ last.result.outcome = "payload"
                 /\ last.result.payload.sub = issue.data.sub
                 /\ last.result.payload.user_id = issue.data.user_id
           /\ last.at > issue.at + ttl
              => last.result.outcome = "None"


\* C11: increment_failed_attempts (run by a wrong-password login of an
\* existing, unlocked, active user) adds exactly 1 to failed_login_attempts;
\* when the new value is >= 5 it sets locked_until to the time of the call
\* plus 15 minutes, a point strictly after the call, also when locked_until
\* was set before; when the new value is < 5 locked_until stays as it was.
C11_RecordFailure ==
    (last.op = "login" /\ last.branch = "bad_password")
       => LET id == query_by_email(last.pre, last.email)
              n == last.pre[id].failed_login_attempts + 1
          IN  /\ users[id].failed_login_attempts = n
              /\ n >= 5 => /\ users[id].locked_until = last.at + 15 * 60 * TicksPerSecond
                           /\ users[id].locked_until > last.at
              /\ n < 5 => users[id].locked_until = last.pre[id].locked_until

C11_Witness ==
    /\ last.op = "login"
    /\ last.branch = "bad_password"
    /\ \E id \in DOMAIN last.pre :
          /\ last.pre[id].email = last.email
          /\ last.pre[id].locked_until # None
          /\ users[id].locked_until > last.pre[id].locked_until
          /\ users[id].failed_login_attempts = 6

\* C13: the response of a failed login is the same (status and detail)
\* whichever reason made it fail: unknown email, locked account, inactive
\* account or wrong password; it equals the response that a login with an
\* unknown email gets in the same state.
C13_UniformLoginFailure ==
    (last.op = "login" /\ last.branch # "ok")
       => LET unknown == CHOOSE e \in Emails : query_by_email(last.pre, e) = NoUser
              r == login(last.pre, unknown, last.password, last.at)
          IN  /\ r.branch = "not_found"
              /\ last.status = r.status
              /\ last.detail = r.detail
              /\ last.issued = r.issued
              /\ last.status = 401

C13_Witness ==
    /\ last.op = "login"
    /\ last.branch = "locked"
    /\ \E id \in DOMAIN last.pre :
          /\ last.pre[id].email = last.email
          /\ verify_password(last.password, last.pre[id].password_hash)

\* C14: the value authenticate_user returns on failure tells the kind of
\* failure: two failing calls that return the same value failed for the same
\* kind of reason (InvalidCredentials: unknown email or wrong password;
\* AccountLocked; InactiveAccount).
C14_FailureTaxonomy ==
    last.op = "login"
       => LET kind == [b \in {"not_found", "bad_password", "locked", "inactive"} |->
                          CASE b = "locked" -> "AccountLocked"
                            [] b = "inactive" -> "InactiveAccount"
                            [] OTHER -> "InvalidCredentials"]
              a == authenticate_user(last.pre, last.email, last.password, last.at)
          IN  \A email \in Emails, password \in Passwords :
                 LET b == authenticate_user(last.pre, email, password, last.at)
                 IN  (a.branch # "ok" /\ b.branch # "ok" /\ a.user = b.user)
                        => kind[a.branch] = kind[b.branch]

\* C12: authenticate_user checks lookup, lock, status, password in this order
\* and returns at the first check that fails: a user that is locked and
\* inactive fails at the lock check; an unlocked inactive user fails at the
\* status check, before the password is looked at (the same for the right and
\* for a wrong password); increment_failed_attempts runs only for an existing,
\* unlocked, active user with a wrong password, so a login against a locked
\* or an inactive user leaves failed_login_attempts and locked_until as they
\* were.
C12_CheckOrder ==
    last.op = "login"
       => LET id == query_by_email(last.pre, last.email)
          IN  /\ id = NoUser => last.branch = "not_found"
              /\ id # NoUser =>
                    LET user == last.pre[id]
                        locked == user.locked_until # None /\ last.at < user.locked_until
                        active == user.member_status = "active"
                        wrong == user.password_hash.plain # last.password
                    IN  /\ locked => last.branch = "locked"
                        /\ (~locked /\ ~active) => last.branch = "inactive"
                        /\ last.branch = "bad_password" <=> (~locked /\ active /\ wrong)
                        /\ (locked \/ ~active) =>
                              /\ DOMAIN users = DOMAIN last.pre
                              /\ users[id].failed_login_attempts = user.failed_login_attempts
                              /\ users[id].locked_until = user.locked_until
              /\ \A i \in DOMAIN last.pre :
                    users[i].failed_login_attempts > last.pre[i].failed_login_attempts
                       => i = id /\ last.branch = "bad_password"

C12_Witness ==
    /\ last.op = "login"
    /\ last.branch = "locked"
    /\ \E id \in DOMAIN last.pre :
          /\ last.pre[id].email = last.email
          /\ last.pre[id].member_status = "inactive"
          /\ last.pre[id].password_hash.plain # last.password
          /\ last.at < last.pre[id].locked_until

\* C19: get_current_user yields a user if and only if the bearer token
\* verifies (a JWT signed with the server's key whose exp has not passed),
\* carries a sub claim, a row with that email exists now and that row is
\* active, and then it yields that row; in every other case the request is
\* rejected with 401. So a token issued before its user was deactivated or
\* deleted is rejected on the next request.
C19_CurrentUserIff ==
    last.op = "get_current_user"
       => LET t == last.token
              verifies == /\ t.kind = "jwt"
                          /\ t.key = secret_key
                          /\ t.claims.exp >= last.at \div TicksPerSecond
              rows == IF verifies /\ "sub" \in DOMAIN t.claims
                      THEN {id \in DOMAIN last.pre :
                               /\ last.pre[id].email = t.claims.sub
                               /\ last.pre[id].member_status = "active"}
                      ELSE {}
          IN  /\ last.status = 200 <=> rows # {}
              /\ last.status = 200 => last.user \in rows
              /\ last.status # 200 => last.status = 401 /\ last.user = NoUser
              /\ users = last.pre

C19_Witness ==
    /\ last.op = "get_current_user"
    /\ last.token \in tokens
    /\ last.token.claims.exp >= last.at \div TicksPerSecond
    /\ last.status = 401
    /\ \E id \in DOMAIN last.pre :
          /\ last.pre[id].email = last.token.claims.sub
          /\ last.pre[id].member_status = "inactive"

\* C15: when db.commit() fails during authenticate_user, on the failure path
\* or on the success path, the attempt ends as a failure: no user is
\* returned and no token is issued; and failing commits do not open a window
\* of guesses: the consecutive wrong passwords that are compared for one
\* email while its counter stays where it was never number more than the
\* lockout threshold.
C15_PersistFailClosed ==
    /\ (last.op = "login" /\ last.raised)
          => /\ last.user = NoUser
             /\ last.issued = {}
             /\ last.status # 200
             /\ users = last.pre
    /\ run.n <= LOCK_THRESHOLD

\* C16: get_user_roles is single-level: for admin it is exactly the set of the
\* four roles, for each other role r it is {r}, for a user without a role it
\* is empty; and it leaves the user as it was.
C16_Expand ==
    last.op = "get_user_roles"
       => LET role == last.pre[last.id].admin_roles
          IN  /\ role = "admin"
                    => last.result = {"admin", "treasurer", "course_coordinator",
                                      "tournament_coordinator"}
              /\ role \in {"treasurer", "course_coordinator", "tournament_coordinator"}
                    => last.result = {role}
              /\ role = "None" => last.result = {}
              /\ users = last.pre

C16_Witness ==
    /\ last.op = "get_user_roles"
    /\ last.pre[last.id].admin_roles = "admin"
    /\ Cardinality(last.result) = 4

\* C17: for every caller role (one of the four, or none) and every tuple R of
\* required roles, the check built by require_roles(R) returns the caller,
\* unchanged, if and only if R is empty, or the caller is admin, or the
\* caller's own role is in R; otherwise it denies with 403. A role other than
\* admin never passes a check that requires only other roles.
C17_RequireRolesIff ==
    last.op = "require_roles"
       => LET role == last.pre[last.id].admin_roles
              R == {last.required[i] : i \in DOMAIN last.required}
              allowed == R = {} \/ role = "admin" \/ role \in R
          IN  /\ last.status = 200 <=> allowed
              /\ allowed => last.user = last.id
              /\ ~allowed => last.status = 403 /\ last.user = NoUser
              /\ users = last.pre

C17_Witness ==
    /\ last.op = "require_roles"
    /\ last.status = 403
    /\ last.pre[last.id].admin_roles = "treasurer"
    /\ Len(last.required) = 2

\* C18: the check built by require_member_self_or_admin(member_id) returns the
\* caller if and only if the caller's id is member_id or the caller has one of
\* the four roles; otherwise it denies with 403 and one fixed message, which
\* no denial of a require_roles check has.
C18_SelfOrAdminIff ==
    last.op = "require_member_self_or_admin"
       => LET role == last.pre[last.id].admin_roles
              allowed == \/ last.id = last.member_id
                         \/ role \in {"admin", "treasurer", "course_coordinator",
                                      "tournament_coordinator"}
          IN  /\ last.status = 200 <=> allowed
              /\ allowed => last.user = last.id
              /\ ~allowed =>
                    /\ last.status = 403
                    /\ last.user = NoUser
                    /\ last.detail = <<"Access denied. You can only access your own data unless you have administrative privileges.">>
                    /\ \A required \in RequiredRoles, id \in DOMAIN last.pre :
                          LET r == require_roles(required, last.pre, id)
                          IN  r.status = 403 => r.detail # last.detail
              /\ users = last.pre

C18_Witness ==
    /\ last.op = "require_member_self_or_admin"
    /\ last.status = 403
    /\ last.member_id \in DOMAIN last.pre
    /\ \E id \in DOMAIN last.pre :
          require_roles(<<"admin">>, last.pre, id).status = 403

\* C20: no token is ever revoked by the server: in every state reached by
\* logins, refreshes, logouts, changes of password and the passing of time,
\* each token issued so far whose exp has not passed and whose sub is the
\* email of an existing, active user still verifies and still authorizes a
\* request, and each such refresh token is still accepted by refresh, however
\* often it was used; logout changes neither the users table nor the tokens.
C20_NeverRevoked ==
    /\ \A t \in tokens :
          (/\ t.claims.exp >= now \div TicksPerSecond
           /\ \E id \in DOMAIN users :
                 /\ users[id].email = t.claims.sub
                 /\ users[id].member_status = "active")
             => /\ verify_token(t, now).outcome = "payload"
                /\ get_current_user(users, t, now).status = 200
                /\ logout(users, t, now).status = 200
                /\ ("type" \in DOMAIN t.claims /\ t.claims.type = "refresh")
                      => refresh_token(users, t, now).status = 200
    /\ last.op = "logout" => users = last.pre /\ tokens = last.tokens
    /\ (last.op \in {"refresh", "logout", "get_current_user"}
          /\ last.token \in tokens
          /\ last.token.claims.exp >= last.at \div TicksPerSecond
          /\ (last.op = "refresh" => "type" \in DOMAIN last.token.claims)
          /\ \E id \in DOMAIN last.pre :
                /\ last.pre[id].email = last.token.claims.sub
                /\ last.pre[id].member_status = "active")
          => last.status = 200

\* A refresh token issued earlier is used for a refresh after its user's
\* password was changed, and is still good for another refresh
C20_Witness ==
    /\ last.op = "refresh"
    /\ last.status = 200
    /\ last.token \notin last.issued
    /\ last.issued \subseteq tokens
    /\ \E id \in DOMAIN users :
          /\ users[id].email = last.token.claims.sub
          /\ users[id].password_hash.salt > 0
    /\ refresh_token(users, last.token, now).status = 200

\* C21: a change-password request passes validation if and only if
\* new_password has between 8 and 100 characters, has at least one upper-case
\* letter, one lower-case letter, one digit and one of the special characters,
\* and confirm_password equals new_password. Lengths 7 and 101 are rejected,
\* lengths 8 and 100 of an otherwise compliant password are accepted.
C21_PasswordPolicy ==
    last.op = "validate"
       => LET v == last.new_password
              has(class) == Cardinality({i \in DOMAIN v : v[i] \in class}) >= 1
              compliant ==
                 /\ has({"A", "B", "C", "D", "E", "F", "G", "H", "I", "J", "K", "L", "M",
                         "N", "O", "P", "Q", "R", "S", "T", "U", "V", "W", "X", "Y", "Z"})
                 /\ has({"a", "b", "c", "d", "e", "f", "g", "h", "i", "j", "k", "l", "m",
                         "n", "o", "p", "q", "r", "s", "t", "u", "v", "w", "x", "y", "z"})
                 /\ has({"0", "1", "2", "3", "4", "5", "6", "7", "8", "9"})
                 /\ has({"!", "@", "#", "$", "%", "^", "&", "*", "(", ")", ",", ".",
                         "?", "\"", ":", "{", "}", "|", "<", ">"})
                 /\ last.confirm_password = v
          IN  /\ last.ok <=> (Len(v) >= 8 /\ Len(v) <= 100 /\ compliant)
              /\ Len(v) \in {7, 101} => ~last.ok
              /\ (Len(v) \in {8, 100} /\ compliant) => last.ok
              /\ ~last.ok <=> last.errors # {}

C21_Witness ==
    /\ last.op = "validate"
    /\ last.ok
    /\ Len(last.new_password) = 100

\* C22: change_password verifies current_password against the stored hash of
\* the caller before it hashes the new one: when it does not verify, the
\* request fails with 400 and the users table is unchanged; when it verifies,
\* the caller's password_hash is replaced by a new hash, which new_password
\* verifies against, and nothing else changes.
C22_ChangePasswordVerifies ==
    (last.op = "change_password" /\ last.user # NoUser)
       => LET id == last.user
              old == last.pre[id].password_hash
          IN  IF verify_password(last.current_password, old)
              THEN /\ last.status = 200
                   /\ users[id].password_hash # old
                   /\ verify_password(last.new_password, users[id].password_hash)
                   /\ users = [last.pre EXCEPT ![id].password_hash =
                                                  users[id].password_hash]
              ELSE /\ last.status = 400
                   /\ last.detail = "Current password is incorrect"
                   /\ users = last.pre

C22_Witness ==
    /\ last.op = "change_password"
    /\ last.user # NoUser
    /\ last.status = 400
    /\ last.pre[last.user].password_hash.salt > 0

\* C24: for all passwords p and p' with p' # p, verify_password(p,
\* get_password_hash(p)) is true and verify_password(p', get_password_hash(p))
\* is false; two calls of get_password_hash(p) return different hashes; and
\* neither function changes a user.
C24_HashVerify ==
    /\ last.op = "verify"
          => /\ last.result <=> last.password = last.of
             /\ users = last.pre
    /\ last.op = "hash"
          => /\ (last.prev.op = "hash" /\ last.prev.password = last.password)
                   => last.prev.result # last.result
             /\ users = last.pre

\* C23: after a successful change of password from p to p' (p' # p) of a user
\* that is active and not locked, the next login of that user succeeds with
\* p' and fails with p; this holds for a change back from p' to p as well.
C23_LoginAfterChange ==
    [][(/\ last.op = "change_password"
        /\ last.status = 200
        /\ last.new_password # last.current_password
        /\ last'.op = "login"
        /\ last'.email = users[last.user].email
        /\ users[last.user].member_status = "active"
        /\ (users[last.user].locked_until = None
               \/ now >= users[last.user].locked_until))
          => /\ last'.password = last.new_password => last'.status = 200
             /\ last'.password = last.current_password => last'.status = 401]_vars

\* C25: a login that succeeds resets the lockout state of the user
\* (failed_login_attempts 0, locked_until None) and issues one access token
\* and one refresh token, both with the user's email as sub and the user's id
\* as user_id, with expires_in the access-token lifetime in seconds, which is
\* when the access token expires; a login that fails issues no token.
C25_LoginIssuesTokens ==
    last.op = "login"
       => IF last.status = 200
          THEN /\ last.user \in DOMAIN users
               /\ users[last.user].email = last.email
               /\ users[last.user].failed_login_attempts = 0
               /\ users[last.user].locked_until = None
               /\ Cardinality(last.issued) = 2
               /\ Cardinality({t \in last.issued : "type" \notin DOMAIN t.claims}) = 1
               /\ Cardinality({t \in last.issued : "type" \in DOMAIN t.claims
                                                   /\ t.claims.type = "refresh"}) = 1
               /\ \A t \in last.issued :
                     /\ t.claims.sub = last.email
                     /\ t.claims.user_id = last.user
                     /\ t.key = secret_key
                     /\ "type" \notin DOMAIN t.claims
                           => t.claims.exp
                                 = (last.at + last.expires_in * TicksPerSecond)
                                      \div TicksPerSecond
               /\ last.expires_in = 30 * 60
               /\ last.issued \subseteq tokens
          ELSE /\ last.issued = {}
               /\ last.user = NoUser

C25_Witness ==
    /\ last.op = "login"
    /\ last.status = 200
    /\ last.pre[last.user].failed_login_attempts > 0
    /\ last.pre[last.user].locked_until # None

\* C26: create_admin_user called while a user with role ADMIN exists raises
\* ValueError and leaves the table as it was when force is false; when force
\* is true it raises nothing, writes email, password hash, first and last
\* name of that user and nothing else (same member_id, no row added), and the
\* password given verifies against the stored hash.
C26_CreateAdminExisting ==
    (last.op = "create_admin_user" /\ last.existing_admin # NoUser)
       => IF ~last.force
          THEN last.raised = "ValueError" /\ users = last.pre
          ELSE /\ last.raised = ""
               /\ last.user = last.existing_admin
               /\ DOMAIN users = DOMAIN last.pre
               /\ users = [last.pre EXCEPT ![last.user] =
                             [@ EXCEPT !.email = last.email,
                                       !.password_hash = users[last.user].password_hash,
                                       !.first_name = last.first_name,
                                       !.last_name = last.last_name]]
               /\ seeding_verify_password(last.password,
                                          users[last.user].password_hash)

\* C27: seed_admin_user with dry_run true returns None, raises nothing and
\* leaves the table as it was, whatever force is and whether or not a user
\* with role ADMIN exists.
C27_DryRun ==
    (last.op = "seed_admin_user" /\ last.dry_run)
       => /\ last.raised = ""
          /\ last.user = NoUser
          /\ users = last.pre

\* C28: require_admin lets the caller through exactly when the stored role is
\* admin; require_financial_access exactly when it is admin or treasurer;
\* require_any_admin exactly when the caller has one of the four roles, and
\* not when the caller has no role. A caller let through is returned, a
\* caller refused gets 403.
C28_ConvenienceChecks ==
    LET role == users[last.id].admin_roles
        allowed == last.status = 200 /\ last.user = last.id
        denied == last.status = 403 /\ last.user = NoUser
    IN  /\ last.op = "require_admin"
           => IF role = "admin" THEN allowed ELSE denied
        /\ last.op = "require_financial_access"
           => IF role \in {"admin", "treasurer"} THEN allowed ELSE denied
        /\ last.op = "require_any_admin"
           => IF role \in {"admin", "treasurer", "course_coordinator",
                           "tournament_coordinator"}
              THEN allowed
              ELSE role = "None" /\ denied

C28_Witness ==
    /\ last.op = "require_admin"
    /\ users[last.id].admin_roles = "treasurer"
    /\ last.status = 403

\* C29: a denial by require_roles with one required role reads "Access
\* denied. This endpoint requires <Role> role."; with more than one it reads
\* "Access denied. This endpoint requires one of the following roles: <Role>,
\* <Role>, ...." with the roles in the order they were required. The role
\* names are Admin, Treasurer, Course Coordinator and Tournament Coordinator.
C29_DenialMessage ==
    LET name == [admin |-> <<"A", "d", "m", "i", "n">>,
                 treasurer |-> <<"T", "r", "e", "a", "s", "u", "r", "e", "r">>,
                 course_coordinator |->
                    <<"C", "o", "u", "r", "s", "e", " ",
                      "C", "o", "o", "r", "d", "i", "n", "a", "t", "o", "r">>,
                 tournament_coordinator |->
                    <<"T", "o", "u", "r", "n", "a", "m", "e", "n", "t", " ",
                      "C", "o", "o", "r", "d", "i", "n", "a", "t", "o", "r">>]
        sep == <<",", " ">>
        one == <<"Access denied. This endpoint requires ">>
        many == <<"Access denied. This endpoint requires one of the following roles: ">>
        req == last.required
        n(i) == name[req[i]]
    IN  /\ (last.op = "require_roles" /\ last.status = 403)
           => /\ Len(req) \in 1 .. 4
              /\ Len(req) = 1 => last.detail = one \o n(1) \o <<" role.">>
              /\ Len(req) = 2
                 => last.detail = many \o n(1) \o sep \o n(2) \o <<".">>
              /\ Len(req) = 3
                 => last.detail = many \o n(1) \o sep \o n(2) \o sep \o n(3)
                                       \o <<".">>
              /\ Len(req) = 4
                 => last.detail = many \o n(1) \o sep \o n(2) \o sep \o n(3)
                                       \o sep \o n(4) \o <<".">>
        /\ (last.op = "require_admin" /\ last.status = 403)
           => last.detail = one \o name["admin"] \o <<" role.">>
        /\ (last.op = "require_financial_access" /\ last.status = 403)
           => last.detail = many \o name["treasurer"] \o sep \o name["admin"]
                                 \o <<".">>
        /\ (last.op = "require_any_admin" /\ last.status = 403)
           => last.detail = many \o name["admin"] \o sep \o name["treasurer"]
                                 \o sep \o name["course_coordinator"]
                                 \o sep \o name["tournament_coordinator"]
                                 \o <<".">>

C29_Witness ==
    /\ last.op = "require_roles"
    /\ last.status = 403
    /\ last.required = <<"tournament_coordinator", "course_coordinator">>

\* C30: when the lock of an active user has expired and no login has
\* succeeded since (failed_login_attempts still >= 5, now >= locked_until),
\* one login with a wrong password sets locked_until to now + 15 minutes: the
\* user is locked again after that one failure, and a login with the right
\* password at that moment is refused.
C30_RelockAfterExpiry ==
    [][\A id \in DOMAIN users :
          (/\ users[id].member_status = "active"
           /\ users[id].failed_login_attempts >= 5
           /\ users[id].locked_until # None
           /\ now >= users[id].locked_until
           /\ last'.op = "login"
           /\ last'.pre = users
           /\ last'.at = now
           /\ last'.email = users[id].email
           /\ ~verify_password(last'.password, users[id].password_hash))
          => /\ last'.status = 401
             /\ last'.issued = {}
             /\ users'[id].locked_until = now + 15 * 60 * TicksPerSecond
             /\ users'[id].failed_login_attempts
                   = users[id].failed_login_attempts + 1
             /\ is_locked(users'[id], now')
             /\ \A password \in Passwords :
                   login(users', users[id].email, password, now').status = 401]_vars

C30_Witness ==
    /\ last.op = "login"
    /\ last.branch = "bad_password"
    /\ \E id \in DOMAIN last.pre :
          /\ last.pre[id].email = last.email
          /\ last.pre[id].failed_login_attempts = 5
          /\ last.pre[id].locked_until # None
          /\ last.at >= last.pre[id].locked_until
          /\ is_locked(users[id], now)

\* C31: a login for a user that is locked at the time of the call (now <
\* locked_until) fails whatever the password is, issues no token and leaves
\* the whole users table, failed_login_attempts and locked_until of that user
\* included, as it was: calls made during the window do not extend it.
C31_LockedFrame ==
    last.op = "login"
       => \A id \in DOMAIN last.pre :
             (/\ last.pre[id].email = last.email
              /\ last.pre[id].locked_until # None
              /\ last.at < last.pre[id].locked_until)
                => /\ last.status = 401
                   /\ last.user = NoUser
                   /\ last.issued = {}
                   /\ users = last.pre
                   /\ users[id].locked_until = last.pre[id].locked_until
                   /\ users[id].failed_login_attempts
                         = last.pre[id].failed_login_attempts

C31_Witness ==
    /\ last.op = "login"
    /\ last.status = 401
    /\ \E id \in DOMAIN last.pre :
          /\ last.pre[id].email = last.email
          /\ last.pre[id].locked_until # None
          /\ last.at < last.pre[id].locked_until
          /\ last.at > last.pre[id].locked_until - 15 * 60 * TicksPerSecond
          /\ ~verify_password(last.password, last.pre[id].password_hash)

\* C32: create_admin_user and seed_admin_user, with any arguments and any
\* force, add a row only to a table that has no user with role ADMIN, add
\* one row at most, and that row is then the only ADMIN; once there is an
\* ADMIN no call adds a row or changes who the ADMIN is. So a table that
\* starts without an ADMIN never holds more than one row made by seeding nor
\* more than one ADMIN.
C32_SeedingIdempotent ==
    [][LET admins(db) == {id \in DOMAIN db : db[id].admin_roles = "admin"}
           created == DOMAIN users' \ DOMAIN users
       IN  /\ DOMAIN users \subseteq DOMAIN users'
           /\ \A id \in DOMAIN users :
                 users'[id].admin_roles = users[id].admin_roles
           /\ admins(users) = {}
                 => /\ Cardinality(created) <= 1
                    /\ admins(users') = created
           /\ admins(users) # {}
                 => /\ created = {}
                    /\ admins(users') = admins(users)
                    /\ Cardinality(admins(users')) = 1]_vars

C32_Witness ==
    /\ last.op \in {"create_admin_user", "seed_admin_user"}
    /\ last.force
    /\ last.raised = ""
    /\ last.existing_admin = 2
    /\ last.pre[1].admin_roles = "None"
    /\ DOMAIN users = {1, 2}
    /\ users[2].admin_roles = "admin"
    /\ users[2].email # last.pre[2].email

\* C33: with logins running one after the other from failed_login_attempts =
\* 0 and locked_until = None, in every state every user has locked_until set
\* if and only if failed_login_attempts >= 5.
C33_LockIffThreshold ==
    \A id \in DOMAIN users :
       users[id].locked_until # None <=> users[id].failed_login_attempts >= 5

C33_Witness ==
    /\ last.op = "login"
    /\ last.status = 200
    /\ last.pre[last.user].locked_until # None
    /\ last.pre[last.user].failed_login_attempts = 6
    /\ users[last.user].locked_until = None

\* C34: no lock is permanent. Whenever an active user is locked, the clock
\* passing leads to a state in which the user is not locked and a login with
\* the user's password succeeds, whatever logins are attempted meanwhile.
C34_LockNeverPermanent ==
    \A id \in {1, 2} :
       (/\ id \in DOMAIN users
        /\ users[id].member_status = "active"
        /\ is_locked(users[id], now))
          ~> (/\ id \in DOMAIN users
              /\ ~is_locked(users[id], now)
              /\ login(users, users[id].email, users[id].password_hash.plain,
                       now).status = 200)

C34_Witness ==
    /\ last.op = "tick"
    /\ \E id \in DOMAIN last.pre :
          /\ last.pre[id].member_status = "active"
          /\ last.pre[id].locked_until # None
          /\ last.at - Minutes(LOCK_MINUTES) < last.pre[id].locked_until
          /\ now >= users[id].locked_until
          /\ login(users, users[id].email, users[id].password_hash.plain,
                   now).status = 200

\* C35: a refresh with a refresh token that verifies, for an active user that
\* is locked at that moment (now < locked_until), is answered 200 with a new
\* access token and a new refresh token for that user, exactly as for a user
\* that is not locked; the lock is neither consulted nor changed.
C35_RefreshIgnoresLock ==
    last.op = "refresh"
       => \A id \in DOMAIN last.pre :
             (/\ verify_token(last.token, last.at).outcome = "payload"
              /\ "type" \in DOMAIN last.token.claims
              /\ last.token.claims.type = "refresh"
              /\ last.token.claims.sub = last.pre[id].email
              /\ last.pre[id].member_status = "active"
              /\ last.pre[id].locked_until # None
              /\ last.at < last.pre[id].locked_until)
                => /\ last.status = 200
                   /\ last.issued
                         = {create_access_token([sub |-> last.pre[id].email,
                                                 user_id |-> id], None, last.at),
                            create_refresh_token([sub |-> last.pre[id].email,
                                                  user_id |-> id], last.at)}
                   /\ last.issued \subseteq tokens
                   /\ users = last.pre

C35_Witness ==
    /\ last.op = "refresh"
    /\ last.status = 200
    /\ \E id \in DOMAIN last.pre :
          /\ last.token.claims.sub = last.pre[id].email
          /\ last.pre[id].failed_login_attempts >= 5
          /\ is_locked(last.pre[id], last.at)
          /\ is_locked(users[id], now)

C36_LockoutFrame ==
    last.op \in {"refresh", "get_current_user", "get_optional_user",
                 "require_roles", "require_member_self_or_admin", "logout",
                 "change_password"}
       => /\ DOMAIN users = DOMAIN last.pre
          /\ \A id \in DOMAIN users :
                /\ users[id].failed_login_attempts
                      = last.pre[id].failed_login_attempts
                /\ users[id].locked_until = last.pre[id].locked_until
          /\ (last.op = "change_password" /\ last.status = 400)
                => users = last.pre
          /\ (last.op = "change_password" /\ last.status = 200)
                => users[last.user].password_hash
                      # last.pre[last.user].password_hash

C36_Witness ==
    /\ last.op = "change_password"
    /\ last.status = 200
    /\ last.pre[last.user].failed_login_attempts >= 5
    /\ is_locked(last.pre[last.user], last.at)
    /\ is_locked(users[last.user], now)

\* C37: a login with an email changes nothing but failed_login_attempts and
\* locked_until of the user that has this email: every other user's row, and
\* the role, status, email and password hash of every user, stay as they
\* were, no row is added or removed, and with an unknown email nothing
\* changes at all. Wrong passwords for one user never lock another.
C37_AuthenticateFrame ==
    last.op = "login"
       => /\ DOMAIN users = DOMAIN last.pre
          /\ \A id \in DOMAIN users :
                /\ users[id].admin_roles = last.pre[id].admin_roles
                /\ users[id].member_status = last.pre[id].member_status
                /\ users[id].email = last.pre[id].email
                /\ users[id].password_hash = last.pre[id].password_hash
                /\ last.pre[id].email # last.email => users[id] = last.pre[id]
          /\ (\A id \in DOMAIN last.pre : last.pre[id].email # last.email)
                => users = last.pre

C37_Witness ==
    /\ last.op = "login"
    /\ last.email = "b@x"
    /\ last.branch = "bad_password"
    /\ users[2].failed_login_attempts = 5
    /\ is_locked(users[2], now)
    /\ users[1].failed_login_attempts \in 1 .. 4
    /\ users[1].locked_until = None

\* C38: whenever get_current_user resolves a token to a user, the user's id
\* is the user_id claim of the token, and a refresh issues tokens for the
\* user_id of the token presented, over logins, refreshes, changes of
\* password and forced updates of the administrator.
C38_TokenIdentity ==
    /\ (last.op = "get_current_user" /\ last.status = 200)
          => last.user = last.token.claims.user_id
    /\ (last.op = "refresh" /\ last.status = 200)
          => \A t \in last.issued : t.claims.user_id = last.token.claims.user_id
    /\ \A t \in tokens :
          LET g == get_current_user(users, t, now)
          IN  g.status = 200 => g.user = t.claims.user_id

====
